---------------------------- MODULE Spec2Model ----------------------------
(***************************************************************************)
(* Smart-Surveillance-System: the stateful analytics pipeline.             *)
(*                                                                         *)
(*   tracker_memory.py     TrackerMemory   (update / get_all / cleanup)    *)
(*   behaviour_engine.py   BehaviourEngine (calculate_scores and helpers)  *)
(*   detector_roboflow.py  Detector        (_apply_person_nms, _apply_nms) *)
(*   working_app.py        process_video, handle_start, handle_stop        *)
(*   app.py                init_surveillance, process_video_stream, ...    *)
(*   main.py               main                                            *)
(*                                                                         *)
(* Conventions.  A detection is a record [bbox, class, confidence]; a bbox *)
(* is the tuple <<x1, y1, x2, y2>> of integer pixels (the detectors cast   *)
(* every coordinate with int()).  Confidence is kept in percent.  Python's *)
(* None is the string "None".  Centres (x1+x2)/2 are half integers, so     *)
(* positions are kept doubled (x1+x2, y1+y2) and every comparison that the *)
(* code makes on centres is made on the scaled integers.  time.time() is a *)
(* clock in whole seconds.                                                 *)
(***************************************************************************)
EXTENDS Integers, Sequences, FiniteSets, TLC

VARIABLES
    \* ---- BehaviourEngine._check_weapon_near_person, called on its own
    arg_person_bbox,      \* person_bbox argument
    arg_weapons,          \* weapon_detections argument
    ret_weapon_near,      \* returned class name, "None", or "pending"
    \* ---- BehaviourEngine._check_suspicious_item_near_person, called on its own
    arg_items,            \* suspicious_items argument
    ret_item_near,        \* returned class name, "None", or "pending"
    \* ---- the deduplication routines, called on their own
    nms_input,            \* detections argument (a list)
    nms_threshold,        \* iou_threshold argument, in percent
    nms_call,             \* which routine was called, or "pending"
    nms_out,              \* the list it returned
    \* ---- TrackerMemory
    memory,               \* self.memory: track_id -> person data
    clock,                \* what time.time() returns now
    tm_call,              \* the last TrackerMemory call: its name, arguments and
                          \* the value of self.memory when it was made
    tm_result,            \* what a caller of get_all() holds: whether it holds a
                          \* result, and the entries the result had when returned
    \* ---- one processing loop (main, process_video_stream, process_video)
    variant,              \* which program runs: "main", "app" or "working"
    video,                \* the video the source plays, when it is fixed in advance
    config,               \* the session configuration
    loop_pc,              \* "loop" while the loop runs, "ended" after it
    frame_count,
    behaviour_engine,     \* the BehaviourEngine: zone, threshold, position_history
    weapon_memory,        \* working_app: list of <<frame_number, weapon>>
    screenshot_captured,  \* set of track ids
    screenshots,          \* track id -> number of screenshots written
    \* what the last iteration of the loop computed and emitted
    frame_weapons,    \* the weapon evidence of the frame
    behaviour_scores,     \* calculate_scores' result
    decisions,            \* track id -> the alert_level and score acted on
    alerts,               \* the per-track alert events emitted
    captures,             \* track ids whose screenshot was written
    crowd_notice,         \* whether the crowd alert was emitted
    \* ---- start, stop and the processing threads
    running,              \* state['running'] / surveillance_state['running']
    video_source,         \* state['video_source']: 0 (None) or a source number
    sources,              \* every VideoSource created: "open" or "released"
    threads               \* every processing thread started: where it is, its
                          \* frame_count and the source opened for it

geoVars == <<arg_person_bbox, arg_weapons, ret_weapon_near, arg_items, ret_item_near>>
nmsVars == <<nms_input, nms_threshold, nms_call, nms_out>>
tmVars  == <<memory, clock, tm_call, tm_result>>
loopVars == <<variant, video, config, loop_pc, frame_count, behaviour_engine, weapon_memory,
              screenshot_captured, screenshots, frame_weapons, behaviour_scores,
              decisions, alerts, captures, crowd_notice>>

lifeVars == <<running, video_source, sources, threads>>

vars == <<geoVars, nmsVars, tmVars, loopVars, lifeVars>>

None == "None"

\* A restricted_zone or suspicious_items argument that is None: the empty
\* tuple (a zone has four coordinates; `if suspicious_items:` treats None
\* and the empty list alike).
NoZone == <<>>
NoItems == <<>>

Max(a, b) == IF a >= b THEN a ELSE b
Min(a, b) == IF a <= b THEN a ELSE b

(***************************************************************************)
(* behaviour_engine.py : _check_weapon_near_person                         *)
(***************************************************************************)

\* expand = 0.2, kept in tenths: width * expand = width * ExpandWeaponTenths / 10
ExpandWeaponTenths == 2

\* CentreInExpanded with a strict lower bound on x (the boundary excluded).
CentreInExpanded_strict(person_bbox, wbbox, tenths) ==
    LET width  == person_bbox[3] - person_bbox[1]
        height == person_bbox[4] - person_bbox[2]
    IN  /\ 10 * person_bbox[1] - width * tenths < 5 * (wbbox[1] + wbbox[3])
        /\ 5 * (wbbox[1] + wbbox[3]) <= 10 * person_bbox[3] + width * tenths
        /\ 10 * person_bbox[2] - height * tenths <= 5 * (wbbox[2] + wbbox[4])
        /\ 5 * (wbbox[2] + wbbox[4]) <= 10 * person_bbox[4] + height * tenths

\* Lines 338-343: the weapon's centre lies in the person box grown by
\* `tenths`/10 of its width and height on each side (both ends inclusive).
\* Everything is multiplied by 10: 10*centre = 5*(wx1+wx2).
CentreInExpanded(person_bbox, wbbox, tenths) ==
    LET px1 == person_bbox[1]  py1 == person_bbox[2]
        px2 == person_bbox[3]  py2 == person_bbox[4]
        width  == px2 - px1
        height == py2 - py1
        px1_expanded == 10 * px1 - width * tenths
        py1_expanded == 10 * py1 - height * tenths
        px2_expanded == 10 * px2 + width * tenths
        py2_expanded == 10 * py2 + height * tenths
        weapon_center_x == 5 * (wbbox[1] + wbbox[3])
        weapon_center_y == 5 * (wbbox[2] + wbbox[4])
    IN  /\ px1_expanded <= weapon_center_x /\ weapon_center_x <= px2_expanded
        /\ py1_expanded <= weapon_center_y /\ weapon_center_y <= py2_expanded

\* Lines 347-354: the raw boxes have an intersection of positive area.
RawOverlap(person_bbox, wbbox) ==
    LET intersection_x1 == Max(person_bbox[1], wbbox[1])
        intersection_y1 == Max(person_bbox[2], wbbox[2])
        intersection_x2 == Min(person_bbox[3], wbbox[3])
        intersection_y2 == Min(person_bbox[4], wbbox[4])
    IN  intersection_x1 < intersection_x2 /\ intersection_y1 < intersection_y2

\* Lines 335-358: the for loop; the first weapon that passes either test wins.
RECURSIVE WeaponLoop(_, _, _)
WeaponLoop(person_bbox, weapon_detections, i) ==
    IF i > Len(weapon_detections) THEN None
    ELSE LET weapon == weapon_detections[i]
         IN  IF CentreInExpanded(person_bbox, weapon.bbox, ExpandWeaponTenths)
                THEN weapon.class
             ELSE IF RawOverlap(person_bbox, weapon.bbox)
                THEN weapon.class
             ELSE WeaponLoop(person_bbox, weapon_detections, i + 1)

\* Lines 320-321 (empty list) and the loop.
_check_weapon_near_person(person_bbox, weapon_detections) ==
    IF Len(weapon_detections) = 0 THEN None
    ELSE WeaponLoop(person_bbox, weapon_detections, 1)

(***************************************************************************)
(* detector_roboflow.py : _apply_person_nms, _apply_nms                    *)
(* working_app.py       : _deduplicate_weapons                             *)
(***************************************************************************)

\* calculate_iou (the same nested function in all three routines).  The
\* quotient intersection / union is kept as the pair <<intersection, union>>;
\* 0.0 is <<0, 1>>.
calculate_iou(box1, box2) ==
    LET x_left   == Max(box1[1], box2[1])
        y_top    == Max(box1[2], box2[2])
        x_right  == Min(box1[3], box2[3])
        y_bottom == Min(box1[4], box2[4])
    IN  IF x_right < x_left \/ y_bottom < y_top THEN <<0, 1>>
        ELSE LET intersection == (x_right - x_left) * (y_bottom - y_top)
                 box1_area == (box1[3] - box1[1]) * (box1[4] - box1[2])
                 box2_area == (box2[3] - box2[1]) * (box2[4] - box2[2])
                 union == box1_area + box2_area - intersection
             IN  IF union > 0 THEN <<intersection, union>> ELSE <<0, 1>>

\* iou > percent/100 with a threshold that is off by ten points.
IouGreater_loose(iou, percent) == 100 * iou[1] > (percent + 10) * iou[2]

\* iou > percent/100.  intersection and union are integers, and a quotient
\* of small integers that is not equal to the threshold differs from it by
\* far more than a rounding error, so the float comparison is the exact one.
IouGreater(iou, percent) == 100 * iou[1] > percent * iou[2]

\* list.sort(key=lambda x: x['confidence'], reverse=True): a stable sort,
\* descending; detections of equal confidence keep their order.
RECURSIVE InsertByConfidence(_, _)
InsertByConfidence(sorted, d) ==
    IF sorted = <<>> THEN <<d>>
    ELSE IF Head(sorted).confidence >= d.confidence
         THEN <<Head(sorted)>> \o InsertByConfidence(Tail(sorted), d)
         ELSE <<d>> \o sorted

RECURSIVE SortByConfidenceFrom(_, _, _)
SortByConfidenceFrom(detections, i, sorted) ==
    IF i > Len(detections) THEN sorted
    ELSE SortByConfidenceFrom(detections, i + 1, InsertByConfidence(sorted, detections[i]))

SortByConfidence(detections) == SortByConfidenceFrom(detections, 1, <<>>)

\* _apply_person_nms lines 180-188: the inner loop over keep.
PersonIsDuplicate(detection, keep, iou_threshold) ==
    \E k \in 1..Len(keep) :
        IouGreater(calculate_iou(detection.bbox, keep[k].bbox), iou_threshold)

RECURSIVE PersonNmsLoop(_, _, _, _)
PersonNmsLoop(detections, i, keep, iou_threshold) ==
    IF i > Len(detections) THEN keep
    ELSE PersonNmsLoop(detections, i + 1,
                       IF PersonIsDuplicate(detections[i], keep, iou_threshold)
                          THEN keep ELSE Append(keep, detections[i]),
                       iou_threshold)

\* detector_roboflow.py lines 138-193.
_apply_person_nms(detections, iou_threshold) ==
    IF Len(detections) = 0 THEN <<>>
    ELSE PersonNmsLoop(SortByConfidence(detections), 1, <<>>, iou_threshold)

\* _apply_nms lines 381-389: duplicate if high IoU and same class.
NmsIsDuplicate(detection, keep, iou_threshold) ==
    \E k \in 1..Len(keep) :
        /\ IouGreater(calculate_iou(detection.bbox, keep[k].bbox), iou_threshold)
        /\ detection.class = keep[k].class

RECURSIVE NmsLoop(_, _, _, _)
NmsLoop(detections, i, keep, iou_threshold) ==
    IF i > Len(detections) THEN keep
    ELSE NmsLoop(detections, i + 1,
                 IF NmsIsDuplicate(detections[i], keep, iou_threshold)
                    THEN keep ELSE Append(keep, detections[i]),
                 iou_threshold)

\* detector_roboflow.py lines 339-394.
_apply_nms(detections, iou_threshold) ==
    IF Len(detections) = 0 THEN <<>>
    ELSE NmsLoop(SortByConfidence(detections), 1, <<>>, iou_threshold)

\* The two fixed thresholds of _deduplicate_weapons (line 115), in percent.
DedupeSameClassIou == 20
DedupeAnyClassIou == 40

\* _deduplicate_weapons lines 110-118.
WeaponIsDuplicate(weapon, keep) ==
    \E k \in 1..Len(keep) :
        LET iou == calculate_iou(weapon.bbox, keep[k].bbox)
        IN  \/ IouGreater(iou, DedupeSameClassIou) /\ weapon.class = keep[k].class
            \/ IouGreater(iou, DedupeAnyClassIou)

RECURSIVE DedupeLoop(_, _, _)
DedupeLoop(weapons, i, keep) ==
    IF i > Len(weapons) THEN keep
    ELSE DedupeLoop(weapons, i + 1,
                    IF WeaponIsDuplicate(weapons[i], keep)
                       THEN keep ELSE Append(keep, weapons[i]))

\* working_app.py lines 82-123.
_deduplicate_weapons(weapons) ==
    IF Len(weapons) = 0 THEN <<>>
    ELSE DedupeLoop(SortByConfidence(weapons), 1, <<>>)

(***************************************************************************)
(* tracker_memory.py : TrackerMemory                                       *)
(***************************************************************************)

\* self.memory = {} (line 18): the function with the empty domain.
EmptyMemory == <<>>

\* Lines 43-46: the centre of a bbox, doubled.
Centre2(bbox) == <<bbox[1] + bbox[3], bbox[2] + bbox[4]>>

\* update whose else branch (an existing track_id) also resets first_seen_time.
UpdateOne_reset(mem, detection, current_frame_count, now) ==
    [k \in DOMAIN mem \cup {detection.track_id} |->
        IF k = detection.track_id
        THEN [track_id |-> k, first_seen_time |-> now,
              last_position |-> Centre2(detection.bbox), bbox |-> detection.bbox,
              last_seen_frame |-> current_frame_count]
        ELSE mem[k]]

\* Lines 39-61: the body of the for loop, for one detection.
UpdateOne(mem, detection, current_frame_count, now) ==
    LET track_id == detection.track_id
        bbox == detection.bbox
        last_position == Centre2(bbox)
    IN  IF track_id \notin DOMAIN mem
        THEN [k \in DOMAIN mem \cup {track_id} |->
                IF k = track_id
                THEN [track_id |-> track_id, first_seen_time |-> now,
                      last_position |-> last_position, bbox |-> bbox,
                      last_seen_frame |-> current_frame_count]
                ELSE mem[k]]
        ELSE [mem EXCEPT ![track_id].last_position = last_position,
                         ![track_id].bbox = bbox,
                         ![track_id].last_seen_frame = current_frame_count]

RECURSIVE UpdateLoop(_, _, _, _, _)
UpdateLoop(mem, person_detections, i, current_frame_count, now) ==
    IF i > Len(person_detections) THEN mem
    ELSE UpdateLoop(UpdateOne(mem, person_detections[i], current_frame_count, now),
                    person_detections, i + 1, current_frame_count, now)

\* TrackerMemory.update (lines 20-61); `now` is what time.time() returns.
update(mem, person_detections, current_frame_count, now) ==
    UpdateLoop(mem, person_detections, 1, current_frame_count, now)

\* TrackerMemory.get_all (line 91) returns self.memory itself.
get_all(mem) == mem

\* Lines 107-110 with a timeout 30 frames longer.
TracksToRemove_late(mem, current_frame_count, timeout) ==
    { track_id \in DOMAIN mem :
        current_frame_count - mem[track_id].last_seen_frame > timeout + 30 }

\* Lines 107-110 with >= in place of >.
TracksToRemove_geq(mem, current_frame_count, timeout) ==
    { track_id \in DOMAIN mem :
        current_frame_count - mem[track_id].last_seen_frame >= timeout }

\* Lines 105-110: tracks_to_remove.
TracksToRemove(mem, current_frame_count, timeout) ==
    { track_id \in DOMAIN mem :
        LET frames_since_last_seen == current_frame_count - mem[track_id].last_seen_frame
        IN  frames_since_last_seen > timeout }

\* TrackerMemory.cleanup (lines 93-114).
cleanup(mem, current_frame_count, timeout) ==
    LET tracks_to_remove == TracksToRemove(mem, current_frame_count, timeout)
    IN  [k \in DOMAIN mem \ tracks_to_remove |-> mem[k]]

(***************************************************************************)
(* behaviour_engine.py : BehaviourEngine.calculate_scores and its helpers  *)
(***************************************************************************)

\* The numbers of calculate_scores and its helpers.
HistorySeconds == 10         \* line 80: keep only the last 10 seconds
DwellSeconds == 30           \* line 84: stay_duration > 30
LowMoveSeconds == 5          \* line 189
LowMovePixels == 20          \* line 205
RapidSeconds == 2            \* line 229
RapidPixels == 100           \* line 243
CrowdPersons == 2            \* line 105: total_persons >= 2
ExpandItemTenths == 3        \* line 264: expand = 0.3
EdgeThreshold == 50          \* line 298
ThreatScore == 5             \* line 128
SuspiciousScore == 3         \* line 130
CrowdThresholdDefault == 5   \* line 21: crowd_threshold=5

\* Lines 128-133 with the first test strict (score > 5).
AlertLevel_strict(score) ==
    IF score > ThreatScore THEN "THREAT"
    ELSE IF score >= SuspiciousScore THEN "SUSPICIOUS"
    ELSE "NORMAL"

\* Lines 128-133: the alert level of a score.
AlertLevel(score) ==
    IF score >= ThreatScore THEN "THREAT"
    ELSE IF score >= SuspiciousScore THEN "SUSPICIOUS"
    ELSE "NORMAL"

\* Lines 145-164; position is a doubled centre, the zone is in pixels.
_is_in_restricted_zone(restricted_zone, position) ==
    IF restricted_zone = NoZone THEN FALSE
    ELSE /\ 2 * restricted_zone[1] <= position[1] /\ position[1] <= 2 * restricted_zone[3]
         /\ 2 * restricted_zone[2] <= position[2] /\ position[2] <= 2 * restricted_zone[4]

\* The for loops of lines 188-191 and 228-231: the index of the first sample
\* of the list with current_time - timestamp >= seconds, or 0.
RECURSIVE FirstSampleAged(_, _, _, _)
FirstSampleAged(history, current_time, seconds, i) ==
    IF i > Len(history) THEN 0
    ELSE IF current_time - history[i][1] >= seconds THEN i
    ELSE FirstSampleAged(history, current_time, seconds, i + 1)

\* Lines 201-203 and 239-241: the squared distance of two doubled centres,
\* which is 4 * distance^2.
Distance2Sq(p, q) == (q[1] - p[1]) * (q[1] - p[1]) + (q[2] - p[2]) * (q[2] - p[2])

\* The low-movement test with the 100 pixel limit of the rapid-movement test.
_has_low_movement_wide(position_history, track_id, current_time) ==
    IF track_id \notin DOMAIN position_history THEN FALSE
    ELSE LET history == position_history[track_id]
         IN  IF Len(history) < 2 THEN FALSE
             ELSE LET i == FirstSampleAged(history, current_time, LowMoveSeconds, 1)
                  IN  IF i = 0 THEN FALSE
                      ELSE Distance2Sq(history[i][2], history[Len(history)][2])
                              < 4 * RapidPixels * RapidPixels

\* Lines 166-205.
_has_low_movement(position_history, track_id, current_time) ==
    IF track_id \notin DOMAIN position_history THEN FALSE
    ELSE LET history == position_history[track_id]
         IN  IF Len(history) < 2 THEN FALSE
             ELSE LET i == FirstSampleAged(history, current_time, LowMoveSeconds, 1)
                  IN  IF i = 0 THEN FALSE
                      ELSE Distance2Sq(history[i][2], history[Len(history)][2])
                              < 4 * LowMovePixels * LowMovePixels

\* The rapid-movement test on the most recent sample that is old enough.
_has_rapid_movement_latest(position_history, track_id, current_time) ==
    IF track_id \notin DOMAIN position_history THEN FALSE
    ELSE LET history == position_history[track_id]
             aged == { i \in 1..Len(history) : current_time - history[i][1] >= RapidSeconds }
         IN  IF Len(history) < 2 \/ aged = {} THEN FALSE
             ELSE LET i == CHOOSE i \in aged : \A j \in aged : j <= i
                  IN  Distance2Sq(history[i][2], history[Len(history)][2])
                          > 4 * RapidPixels * RapidPixels

\* Lines 207-243.
_has_rapid_movement(position_history, track_id, current_time) ==
    IF track_id \notin DOMAIN position_history THEN FALSE
    ELSE LET history == position_history[track_id]
         IN  IF Len(history) < 2 THEN FALSE
             ELSE LET i == FirstSampleAged(history, current_time, RapidSeconds, 1)
                  IN  IF i = 0 THEN FALSE
                      ELSE Distance2Sq(history[i][2], history[Len(history)][2])
                              > 4 * RapidPixels * RapidPixels

\* Lines 271-282: the for loop; only the centre test is made.
RECURSIVE ItemLoop(_, _, _)
ItemLoop(person_bbox, suspicious_items, i) ==
    IF i > Len(suspicious_items) THEN None
    ELSE IF CentreInExpanded(person_bbox, suspicious_items[i].bbox, ExpandItemTenths)
         THEN suspicious_items[i].class
         ELSE ItemLoop(person_bbox, suspicious_items, i + 1)

\* Lines 245-282.
_check_suspicious_item_near_person(person_bbox, suspicious_items) ==
    IF Len(suspicious_items) = 0 THEN None
    ELSE ItemLoop(person_bbox, suspicious_items, 1)

\* Lines 284-306; frame_shape is <<height, width, channels>>.
_is_at_frame_edge(person_bbox, frame_shape) ==
    LET height == frame_shape[1]
        width == frame_shape[2]
        at_left == person_bbox[1] < EdgeThreshold
        at_right == person_bbox[3] > width - EdgeThreshold
        at_top == person_bbox[2] < EdgeThreshold
        at_bottom == person_bbox[4] > height - EdgeThreshold
    IN  at_left \/ at_right \/ at_top \/ at_bottom

\* Lines 72-75 without the pruning of lines 77-81.
UpdateHistory_no_prune(position_history, tracked_persons, current_time) ==
    [k \in DOMAIN position_history \cup DOMAIN tracked_persons |->
        IF k \in DOMAIN tracked_persons
        THEN LET old == IF k \in DOMAIN position_history THEN position_history[k] ELSE <<>>
             IN  Append(old, <<current_time, tracked_persons[k].last_position>>)
        ELSE position_history[k]]

\* Lines 72-81: the history of the tracks in tracked_persons gets the sample
\* (current_time, current_position) appended and is then cut to the samples
\* with current_time - t <= 10; the history of any other id is left as it is.
UpdateHistory(position_history, tracked_persons, current_time) ==
    [k \in DOMAIN position_history \cup DOMAIN tracked_persons |->
        IF k \in DOMAIN tracked_persons
        THEN LET old == IF k \in DOMAIN position_history THEN position_history[k] ELSE <<>>
                 appended == Append(old, <<current_time, tracked_persons[k].last_position>>)
                 Recent(sample) == current_time - sample[1] <= HistorySeconds
             IN  SelectSeq(appended, Recent)
        ELSE position_history[k]]

\* A factor that adds its points when it fires without being listed.
Factor_unlisted(fires, points, name) == IF fires THEN <<points, <<>>>> ELSE <<0, <<>>>>

\* A factor that adds `points` when `fires`: <<points, <<factor>>>> or <<0, <<>>>>.
Factor(fires, points, name) == IF fires THEN <<points, <<name>>>> ELSE <<0, <<>>>>

\* Lines 61-141 for one track; position_history is the history after lines
\* 72-81.  suspicious_items is None (not passed) or a list.
ScoreTrack(track_id, person_data, position_history, current_time, total_persons, weapon_detections, frame_shape, suspicious_items, restricted_zone) ==
    LET stay_duration == current_time - person_data.first_seen_time
        current_position == person_data.last_position
        person_bbox == person_data.bbox
        weapon_near == _check_weapon_near_person(person_bbox, weapon_detections)
        suspicious_item ==
            IF suspicious_items = NoItems THEN None
            ELSE _check_suspicious_item_near_person(person_bbox, suspicious_items)
        f1 == Factor(stay_duration > DwellSeconds, 1, <<"Loitering">>)
        f2 == Factor(restricted_zone # NoZone
                       /\ _is_in_restricted_zone(restricted_zone, current_position),
                     2, <<"In restricted zone">>)
        f3 == Factor(_has_low_movement(position_history, track_id, current_time),
                     1, <<"Suspicious stillness">>)
        f4 == Factor(_has_rapid_movement(position_history, track_id, current_time),
                     1, <<"Erratic movement">>)
        f5 == Factor(total_persons >= CrowdPersons, 1, <<"Multiple people">>)
        f6 == Factor(weapon_near # None, 5, <<"Weapon", weapon_near>>)
        f7 == Factor(suspicious_item # None, 2, <<"Suspicious item", suspicious_item>>)
        f8 == Factor(_is_at_frame_edge(person_bbox, frame_shape), 1, <<"At frame edge">>)
        score == f1[1] + f2[1] + f3[1] + f4[1] + f5[1] + f6[1] + f7[1] + f8[1]
        factors == f1[2] \o f2[2] \o f3[2] \o f4[2] \o f5[2] \o f6[2] \o f7[2] \o f8[2]
    IN  [score |-> score, alert_level |-> AlertLevel(score),
         stay_duration |-> stay_duration, factors |-> factors]

\* BehaviourEngine.calculate_scores (lines 37-143).  self is the object:
\* [restricted_zone, crowd_threshold, position_history].  Returns the scores
\* and the engine's position_history after the call.
calculate_scores(self, tracked_persons, weapon_detections, frame_shape, suspicious_items, current_time) ==
    LET total_persons == Cardinality(DOMAIN tracked_persons)
        history == UpdateHistory(self.position_history, tracked_persons, current_time)
    IN  [scores |->
            [track_id \in DOMAIN tracked_persons |->
                ScoreTrack(track_id, tracked_persons[track_id], history, current_time,
                           total_persons, weapon_detections, frame_shape,
                           suspicious_items, self.restricted_zone)],
         position_history |-> history]

(***************************************************************************)
(* main.py : main; app.py : process_video_stream; working_app.py :         *)
(* process_video -- the parts of one loop iteration                        *)
(***************************************************************************)

WeaponEveryFrames == 3        \* main.py line 122, app.py line 228
ItemsEveryFrames == 5         \* working_app.py line 213
WeaponMemoryTimeout == 30     \* working_app.py line 170
AlertEveryFrames == 30        \* working_app.py line 286
CrowdEveryFrames == 60        \* working_app.py line 315
CrowdNoticePersons == 2       \* working_app.py line 314
CleanupEveryMain == 30        \* main.py line 171, app.py line 288
CleanupEveryWorking == 60     \* working_app.py line 338

\* BehaviourEngine(restricted_zone=..., crowd_threshold=...) (lines 31-35).
NewEngine(restricted_zone, crowd_threshold) ==
    [restricted_zone |-> restricted_zone, crowd_threshold |-> crowd_threshold,
     position_history |-> <<>>]

\* Lines 198-209 keeping an entry while frame_count - f <= weapon_memory_timeout.
NextWeaponMemory_leq(mem, enable_weapon_detection, new_weapons, fc) ==
    IF enable_weapon_detection
    THEN IF Len(new_weapons) > 0
         THEN [i \in 1..Len(new_weapons) |-> <<fc, new_weapons[i]>>]
         ELSE LET Young(entry) == fc - entry[1] <= WeaponMemoryTimeout
              IN  SelectSeq(mem, Young)
    ELSE <<>>

\* working_app.py lines 198-209: weapon_memory after the detector call.
NextWeaponMemory(mem, enable_weapon_detection, new_weapons, fc) ==
    IF enable_weapon_detection
    THEN IF Len(new_weapons) > 0
         THEN [i \in 1..Len(new_weapons) |-> <<fc, new_weapons[i]>>]
         ELSE LET Young(entry) == fc - entry[1] < WeaponMemoryTimeout
              IN  SelectSeq(mem, Young)
    ELSE <<>>

\* working_app.py lines 219-225: the evidence taken from the memory.
MemoryEvidence(mem) ==
    IF Len(mem) > 0
    THEN _deduplicate_weapons([i \in 1..Len(mem) |-> mem[i][2]])
    ELSE <<>>

\* Lines 276-283 left out: the level and score as scored.
Escalate_never(score_data, evidence) ==
    [alert_level |-> score_data.alert_level, score |-> score_data.score]

\* Lines 276-283 without the score being raised.
Escalate_level_only(score_data, evidence) ==
    IF Len(evidence) > 0 /\ score_data.alert_level # "THREAT"
    THEN [alert_level |-> "THREAT", score |-> score_data.score]
    ELSE [alert_level |-> score_data.alert_level, score |-> score_data.score]

\* working_app.py lines 276-283: the level and score the alert and capture
\* decisions use.
Escalate(score_data, evidence) ==
    IF Len(evidence) > 0 /\ score_data.alert_level # "THREAT"
    THEN [alert_level |-> "THREAT", score |-> Max(score_data.score, 5)]
    ELSE [alert_level |-> score_data.alert_level, score |-> score_data.score]

\* main.py lines 150-151, app.py lines 263-264: the engine's own result.
AsScored(score_data) ==
    [alert_level |-> score_data.alert_level, score |-> score_data.score]

\* The capture test with the captured set ignored.
ToCapture_always(decided, captured) ==
    { track_id \in DOMAIN decided : decided[track_id].alert_level = "THREAT" }

\* main.py lines 151-153, app.py lines 264-265, working_app.py line 304: the
\* tracks whose screenshot is written in this iteration.  (cv2.imwrite is
\* taken to succeed: main.py creates the directory at start, the others
\* before each write.)
ToCapture(decided, captured) ==
    { track_id \in DOMAIN decided :
        decided[track_id].alert_level = "THREAT" /\ track_id \notin captured }

\* The files written so far after this iteration's captures.
Written(files, ids) ==
    [k \in DOMAIN files \cup ids |->
        (IF k \in DOMAIN files THEN files[k] ELSE 0) + (IF k \in ids THEN 1 ELSE 0)]

\* The crowd alert without the test on the number of tracks.
CrowdNotice_any_count(tracked_persons, fc) == fc % CrowdEveryFrames = 0

\* working_app.py lines 313-315: whether the crowd alert is emitted.
CrowdNotice(tracked_persons, fc) ==
    Cardinality(DOMAIN tracked_persons) >= CrowdNoticePersons /\ fc % CrowdEveryFrames = 0

\* The per-track alerts without the test on the frame number.
TrackAlerts_every_frame(decided, fc) ==
    { [type |-> decided[track_id].alert_level, person_id |-> track_id,
       score |-> decided[track_id].score] :
        track_id \in { t \in DOMAIN decided : decided[t].alert_level # "NORMAL" } }

\* working_app.py lines 286-299: the per-track alert events of a frame.
TrackAlerts(decided, fc) ==
    { [type |-> decided[track_id].alert_level, person_id |-> track_id,
       score |-> decided[track_id].score] :
        track_id \in { t \in DOMAIN decided :
                         decided[t].alert_level # "NORMAL" /\ fc % AlertEveryFrames = 0 } }

(***************************************************************************)
(* Inputs of the geometry checks                                           *)
(***************************************************************************)

MaxWeapons == 2

\* A person box whose 20% margins are whole pixels (so that a centre can lie
\* exactly on the expanded boundary) and one whose margins are not.
GeoPersonBoxes == { <<100, 100, 200, 200>>, <<100, 100, 133, 177>> }

\* Intervals on one axis, relative to the person box 100..200 (margins 20):
\* outside, centre on the lower boundary and touching, inside, overlapping the
\* upper edge, centre on the upper boundary and touching, centre one half
\* pixel beyond the boundary, outside, and wide (overlapping, centre outside).
GeoIntervals ==
    { <<20, 60>>, <<60, 100>>, <<120, 160>>, <<180, 220>>, <<200, 240>>,
      <<200, 241>>, <<220, 260>>, <<100, 400>> }

GeoBoxes == { <<x[1], y[1], x[2], y[2]>> : x \in GeoIntervals, y \in GeoIntervals }

WeaponClasses == <<"gun", "knife", "bat">>

\* The i-th weapon of a list carries the i-th class, so that the class
\* returned tells which weapon matched.
GeoWeaponList(boxes) ==
    [i \in 1..Len(boxes) |->
        [bbox |-> boxes[i], class |-> WeaponClasses[((i - 1) % 3) + 1], confidence |-> 90]]

GeoIdle ==
    /\ arg_person_bbox = <<>>
    /\ arg_weapons = <<>>
    /\ ret_weapon_near = "idle"
    /\ arg_items = <<>>
    /\ ret_item_near = "idle"

GeoInit ==
    /\ arg_person_bbox \in GeoPersonBoxes
    /\ \E n \in 0..MaxWeapons : \E boxes \in [1..n -> GeoBoxes] :
          arg_weapons = GeoWeaponList(boxes)
    /\ ret_weapon_near = "pending"
    /\ arg_items = <<>>
    /\ ret_item_near = "idle"

\* weapon_near = self._check_weapon_near_person(person_bbox, weapon_detections)
CallCheckWeapon ==
    /\ ret_weapon_near = "pending"
    /\ ret_weapon_near' = _check_weapon_near_person(arg_person_bbox, arg_weapons)
    /\ UNCHANGED <<arg_person_bbox, arg_weapons, arg_items, ret_item_near>>
    /\ UNCHANGED <<nmsVars, tmVars, loopVars, lifeVars>>

ItemClasses == <<"backpack", "suitcase", "handbag">>

\* The i-th item of a list carries the i-th class.
GeoItemList(boxes) ==
    [i \in 1..Len(boxes) |->
        [bbox |-> boxes[i], class |-> ItemClasses[((i - 1) % 3) + 1], confidence |-> 90]]

ItemInit ==
    /\ arg_person_bbox \in GeoPersonBoxes
    /\ \E n \in 0..MaxWeapons : \E boxes \in [1..n -> GeoBoxes] :
          arg_items = GeoItemList(boxes)
    /\ ret_item_near = "pending"
    /\ arg_weapons = <<>>
    /\ ret_weapon_near = "idle"

\* suspicious_item = self._check_suspicious_item_near_person(person_bbox, suspicious_items)
CallCheckItem ==
    /\ ret_item_near = "pending"
    /\ ret_item_near' = _check_suspicious_item_near_person(arg_person_bbox, arg_items)
    /\ UNCHANGED <<arg_person_bbox, arg_weapons, ret_weapon_near, arg_items>>
    /\ UNCHANGED <<nmsVars, tmVars, loopVars, lifeVars>>

(***************************************************************************)
(* Inputs and calls of the deduplication routines                          *)
(***************************************************************************)

MaxDets == 3

\* Boxes whose pairwise IoU with the first one is 1, exactly 0.5, exactly
\* 0.3, 3/7 and 1/9, and a disjoint one; the 4th and 5th overlap each other
\* (3/7) so that suppression is not transitive.
NmsBoxes ==
    { <<0, 0, 10, 10>>, <<0, 0, 10, 20>>, <<0, 0, 3, 10>>, <<4, 0, 14, 10>>,
      <<8, 0, 18, 10>>, <<20, 20, 30, 30>> }

NmsDetections ==
    { [bbox |-> b, class |-> c, confidence |-> p] :
        b \in NmsBoxes, c \in {"gun", "knife"}, p \in {80, 90} }

\* iou_threshold values the callers pass (0.3 for persons, 0.5 for weapons)
\* and the default of _apply_nms (0.4).
NmsThresholds == {30, 40, 50}

NmsIdle ==
    /\ nms_input = <<>>
    /\ nms_threshold = 0
    /\ nms_call = "idle"
    /\ nms_out = <<>>

NmsInit ==
    /\ \E n \in 0..MaxDets : nms_input \in [1..n -> NmsDetections]
    /\ nms_threshold \in NmsThresholds
    /\ nms_call = "pending"
    /\ nms_out = <<>>

CallPersonNms ==
    /\ nms_call = "pending"
    /\ nms_call' = "_apply_person_nms"
    /\ nms_out' = _apply_person_nms(nms_input, nms_threshold)
    /\ UNCHANGED <<nms_input, nms_threshold>>
    /\ UNCHANGED <<geoVars, tmVars, loopVars, lifeVars>>

CallNms ==
    /\ nms_call = "pending"
    /\ nms_call' = "_apply_nms"
    /\ nms_out' = _apply_nms(nms_input, nms_threshold)
    /\ UNCHANGED <<nms_input, nms_threshold>>
    /\ UNCHANGED <<geoVars, tmVars, loopVars, lifeVars>>

CallDeduplicateWeapons ==
    /\ nms_call = "pending"
    /\ nms_call' = "_deduplicate_weapons"
    /\ nms_out' = _deduplicate_weapons(nms_input)
    /\ UNCHANGED <<nms_input, nms_threshold>>
    /\ UNCHANGED <<geoVars, tmVars, loopVars, lifeVars>>

(***************************************************************************)
(* TrackerMemory under an arbitrary caller                                 *)
(***************************************************************************)

MaxClock == 2

\* timeout=90 at every call site; cleanup's default is 90 too.
StaleTimeout == 90

TMTrackIds == {1, 2}
TMBoxes == { <<100, 100, 200, 300>>, <<150, 100, 250, 300>> }
TMDetections == { [track_id |-> t, bbox |-> b, confidence |-> 90] : t \in TMTrackIds, b \in TMBoxes }

\* Every list of at most two detections.
TMDetLists == UNION { [1..n -> TMDetections] : n \in {0, 1, 2} }

\* Frame numbers passed by the caller: 101 - 10 > 90 and 100 - 10 = 90.
TMFrames == {10, 100, 101}
TMTimeouts == {StaleTimeout, StaleTimeout - 1}

NoCall == [name |-> "none", frame |-> 0, timeout |-> 0, dets |-> <<>>, before |-> EmptyMemory]

\* No caller holds a get_all() result.
NoResult == [held |-> FALSE, returned |-> EmptyMemory]

TMIdle ==
    /\ memory = EmptyMemory
    /\ clock = 0
    /\ tm_call = NoCall
    /\ tm_result = NoResult

\* TrackerMemory() at time 0.
TMInit == TMIdle

\* time passes
TMTick ==
    /\ clock < MaxClock
    /\ clock' = clock + 1
    /\ UNCHANGED <<memory, tm_call, tm_result>>
    /\ UNCHANGED <<geoVars, nmsVars, loopVars, lifeVars>>

\* tracker_memory.update(person_detections, current_frame_count)
TMUpdate ==
    \E dets \in TMDetLists : \E frame \in TMFrames :
        /\ memory' = update(memory, dets, frame, clock)
        /\ UNCHANGED tm_result
        /\ tm_call' = [name |-> "update", frame |-> frame, timeout |-> 0,
                       dets |-> dets, before |-> memory]
        /\ UNCHANGED clock
        /\ UNCHANGED <<geoVars, nmsVars, loopVars, lifeVars>>

\* tracker_memory.cleanup(current_frame_count, timeout)
TMCleanup ==
    \E frame \in TMFrames : \E timeout \in TMTimeouts :
        /\ memory' = cleanup(memory, frame, timeout)
        /\ UNCHANGED tm_result
        /\ tm_call' = [name |-> "cleanup", frame |-> frame, timeout |-> timeout,
                       dets |-> <<>>, before |-> memory]
        /\ UNCHANGED clock
        /\ UNCHANGED <<geoVars, nmsVars, loopVars, lifeVars>>

\* result = tracker_memory.get_all(): line 91 returns self.memory, the
\* dictionary of the store itself.
TMGetAll ==
    /\ tm_result' = [held |-> TRUE, returned |-> get_all(memory)]
    /\ tm_call' = [name |-> "get_all", frame |-> 0, timeout |-> 0,
                   dets |-> <<>>, before |-> memory]
    /\ UNCHANGED <<memory, clock>>
    /\ UNCHANGED <<geoVars, nmsVars, loopVars, lifeVars>>

\* The entries of the dictionary the caller holds, read now: the object is
\* self.memory (line 91), so they are the entries of the store.
ResultEntries == memory

(***************************************************************************)
(* One processing loop and its inputs                                      *)
(***************************************************************************)

MaxFrame == 4

\* frame.shape of a 640 x 480 frame.
FrameShape == <<480, 640, 3>>

\* Person boxes: PA; PD is PA moved by 200 pixels; PE touches the left edge
\* of the frame.
PA == <<100, 100, 200, 300>>
PD == <<300, 100, 400, 300>>
PE == <<0, 100, 100, 300>>

\* detect_persons' result: track ids are 1, 2, ... from left to right
\* (detector_roboflow.py lines 120-127).
DetectedPersons(boxes) ==
    [i \in 1..Len(boxes) |-> [track_id |-> i, bbox |-> boxes[i], confidence |-> 90]]

PersonInputs ==
    { DetectedPersons(b) : b \in { <<>>, <<PA>>, <<PD>>, <<PE>>, <<PA, PD>> } }

\* detect_weapons' results: nothing, or a gun inside PA (and far from PD and
\* PE).
GunAtPA == [bbox |-> <<150, 150, 180, 180>>, class |-> "gun", confidence |-> 90]
WeaponInputs == { <<>>, <<GunAtPA>> }

\* detect_suspicious_items' results: nothing, or a backpack beside PA.
BackpackAtPA == [bbox |-> <<200, 200, 240, 260>>, class |-> "backpack", confidence |-> 90]
ItemInputs == { <<>>, <<BackpackAtPA>> }

\* Seconds between two iterations.
DtChoices == {3, 31}

\* A video fixed in advance: its length in frames, the seconds between two
\* iterations, the people in it from left to right (each with the frames in
\* which the detector sees them, the box in the first of these frames and
\* the pixels moved to the right per frame) and the frames in which the
\* detector sees a gun at GunAtPA.  NoVideo: the content is not fixed.
NoVideo == [frames |-> 0, dt |-> 0, people |-> <<>>, gun |-> <<1, 0>>, bag |-> <<1, 0>>]

Appearance(from, to, box, speed) == [from |-> from, to |-> to, box |-> box, speed |-> speed]

BoxAt(a, f) ==
    LET moved == a.speed * (f - a.from)
    IN  <<a.box[1] + moved, a.box[2], a.box[3] + moved, a.box[4]>>

\* detect_persons' result for frame f of video v.
VideoPersons(v, f) ==
    LET Present(a) == a.from <= f /\ f <= a.to
        shown == SelectSeq(v.people, Present)
    IN  DetectedPersons([i \in 1..Len(shown) |-> BoxAt(shown[i], f)])

\* detect_weapons' result for frame f of video v.
VideoWeapons(v, f) == IF v.gun[1] <= f /\ f <= v.gun[2] THEN <<GunAtPA>> ELSE <<>>

\* detect_suspicious_items' result for frame f of video v.
VideoItems(v, f) == IF v.bag[1] <= f /\ f <= v.bag[2] THEN <<BackpackAtPA>> ELSE <<>>

\* What the detectors and the clock can give in iteration fc.
FramePersons(fc) == IF video = NoVideo THEN PersonInputs ELSE { VideoPersons(video, fc) }
FrameWeapons(fc) == IF video = NoVideo THEN WeaponInputs ELSE { VideoWeapons(video, fc) }
FrameItems(fc) == IF video = NoVideo THEN ItemInputs ELSE { VideoItems(video, fc) }
FrameSeconds == IF video = NoVideo THEN DtChoices ELSE { video.dt }

\* The last frame an iteration is taken for.
LastFrame == IF video = NoVideo THEN MaxFrame ELSE video.frames

\* config.get('restrictedZone'): none, or a zone around PD's centre.
ZoneInputs == { NoZone, <<300, 100, 400, 300>> }

FlagInputs ==
    { [personDetection |-> TRUE, weaponDetection |-> TRUE, behaviorAnalysis |-> TRUE],
      [personDetection |-> TRUE, weaponDetection |-> FALSE, behaviorAnalysis |-> TRUE],
      [personDetection |-> TRUE, weaponDetection |-> TRUE, behaviorAnalysis |-> FALSE],
      [personDetection |-> FALSE, weaponDetection |-> TRUE, behaviorAnalysis |-> TRUE] }

AllEnabled == [personDetection |-> TRUE, weaponDetection |-> TRUE, behaviorAnalysis |-> TRUE]

LoopUnused ==
    /\ video = NoVideo
    /\ config = <<>>
    /\ loop_pc = "idle"
    /\ frame_count = 0
    /\ behaviour_engine = <<>>
    /\ weapon_memory = <<>>
    /\ screenshot_captured = {}
    /\ screenshots = <<>>
    /\ frame_weapons = <<>>
    /\ behaviour_scores = <<>>
    /\ decisions = <<>>
    /\ alerts = {}
    /\ captures = {}
    /\ crowd_notice = FALSE

LoopIdle == variant = "none" /\ LoopUnused

\* The state when the loop is entered: main.py lines 37-103, app.py lines
\* 151-210, working_app.py lines 142-179.
LoopInit ==
    /\ variant \in {"main", "app", "working"}
    /\ video = NoVideo
    /\ \E zone \in ZoneInputs : \E flags \in FlagInputs :
          /\ variant = "main" => zone = NoZone
          /\ variant # "working" => flags = AllEnabled
          /\ flags # AllEnabled => zone = NoZone
          /\ config = [restrictedZone |-> zone, flags |-> flags]
          /\ behaviour_engine = NewEngine(zone, CrowdThresholdDefault)
    /\ loop_pc = "loop"
    /\ frame_count = 0
    /\ weapon_memory = <<>>
    /\ screenshot_captured = {}
    /\ screenshots = <<>>
    /\ frame_weapons = <<>>
    /\ behaviour_scores = <<>>
    /\ decisions = <<>>
    /\ alerts = {}
    /\ captures = {}
    /\ crowd_notice = FALSE
    /\ memory = EmptyMemory
    /\ clock = 0
    /\ tm_call = NoCall
    /\ tm_result = NoResult

\* The videos of the long runs.
RunFrames == 182

\* One person standing at PA for the whole video.
StillVideo ==
    [frames |-> RunFrames, dt |-> 1, gun |-> <<1, 0>>, bag |-> <<1, 0>>,
     people |-> <<Appearance(1, RunFrames, PA, 0)>>]

\* One person walking to the right from PA, 5 pixels per frame, for 40 frames.
WalkVideo ==
    [frames |-> RunFrames, dt |-> 1, gun |-> <<1, 0>>, bag |-> <<1, 0>>,
     people |-> <<Appearance(1, 40, PA, 5)>>]

\* Two people standing at PA and PD for the whole video.
PairVideo ==
    [frames |-> RunFrames, dt |-> 1, gun |-> <<1, 0>>, bag |-> <<1, 0>>,
     people |-> <<Appearance(1, RunFrames, PA, 0), Appearance(1, RunFrames, PD, 0)>>]

\* One person at PA with a gun in frames 1..5, who comes back with the gun
\* in frames 121..125.
ReturnVideo ==
    [frames |-> RunFrames, dt |-> 1, gun |-> <<1, 125>>, bag |-> <<1, 0>>,
     people |-> <<Appearance(1, 5, PA, 0), Appearance(121, 125, PA, 0)>>]

\* One person at PA in frames 1..5 only.
VisitVideo ==
    [frames |-> RunFrames, dt |-> 1, gun |-> <<1, 0>>, bag |-> <<1, 0>>,
     people |-> <<Appearance(1, 5, PA, 0)>>]

\* One person standing at PA; the detector sees a gun in frames 28..30.
GunVideo ==
    [frames |-> RunFrames, dt |-> 1, gun |-> <<28, 30>>, bag |-> <<1, 0>>,
     people |-> <<Appearance(1, RunFrames, PA, 0)>>]

\* One person crossing the frame from PA at 30 pixels a second, frames 1..14.
RunnerVideo ==
    [frames |-> RunFrames, dt |-> 1, gun |-> <<1, 0>>, bag |-> <<1, 0>>,
     people |-> <<Appearance(1, 14, PA, 30)>>]

\* One person standing at PA with a backpack, another at the left edge; the
\* detectors see the gun and the backpack in every frame.
BusyVideo ==
    [frames |-> RunFrames, dt |-> 1, gun |-> <<1, RunFrames>>, bag |-> <<1, RunFrames>>,
     people |-> <<Appearance(1, RunFrames, PA, 0), Appearance(1, RunFrames, PE, 0)>>]

\* One person standing at PA, a second at PD from frame 50 on; the detector
\* sees a gun at PA in frames 40 and 41 only.
GlimpseVideo ==
    [frames |-> RunFrames, dt |-> 1, gun |-> <<40, 41>>, bag |-> <<1, 0>>,
     people |-> <<Appearance(1, RunFrames, PA, 0), Appearance(50, RunFrames, PD, 0)>>]

\* One person standing at PA in frames 1..30, nobody afterwards.
LeaveVideo ==
    [frames |-> RunFrames, dt |-> 1, gun |-> <<1, 0>>, bag |-> <<1, 0>>,
     people |-> <<Appearance(1, 30, PA, 0)>>]

\* The one track is at PA, in frames 6 and 7 at PD, then at PA again.
JumpVideo ==
    [frames |-> RunFrames, dt |-> 1, gun |-> <<1, 0>>, bag |-> <<1, 0>>,
     people |-> <<Appearance(1, 5, PA, 0), Appearance(6, 7, PD, 0),
                  Appearance(8, RunFrames, PA, 0)>>]

Videos == {StillVideo, WalkVideo, PairVideo, ReturnVideo, VisitVideo, GunVideo,
           RunnerVideo, BusyVideo, GlimpseVideo, LeaveVideo, JumpVideo}

\* The loop is entered with every detector enabled and no restricted zone,
\* on one of the videos.
RunInit ==
    /\ variant \in {"main", "app", "working"}
    /\ video \in Videos
    /\ config = [restrictedZone |-> NoZone, flags |-> AllEnabled]
    /\ behaviour_engine = NewEngine(NoZone, CrowdThresholdDefault)
    /\ loop_pc = "loop"
    /\ frame_count = 0
    /\ weapon_memory = <<>>
    /\ screenshot_captured = {}
    /\ screenshots = <<>>
    /\ frame_weapons = <<>>
    /\ behaviour_scores = <<>>
    /\ decisions = <<>>
    /\ alerts = {}
    /\ captures = {}
    /\ crowd_notice = FALSE
    /\ memory = EmptyMemory
    /\ clock = 0
    /\ tm_call = NoCall
    /\ tm_result = NoResult

\* The frames in which main.py (line 122) and app.py (line 228) call
\* detect_weapons; in the others weapon_detections stays [].
DetectedWeaponInputs(fc) ==
    IF fc % WeaponEveryFrames = 0 THEN FrameWeapons(fc) ELSE { <<>> }

\* main.py lines 106-182 (variant "main") and app.py lines 212-302 (variant
\* "app"): one iteration in which a frame was read.  (\E x \in {e} names the
\* value e.)
PlainFrame ==
    /\ variant \in {"main", "app"}
    /\ loop_pc = "loop"
    /\ frame_count < LastFrame
    /\ \E person_detections \in FramePersons(frame_count + 1) : \E dt \in FrameSeconds :
       \E evidence \in DetectedWeaponInputs(frame_count + 1) :
       \E fc \in {frame_count + 1} : \E now \in {clock + dt} :
       \E updated \in {update(memory, person_detections, fc, now)} :
       \E tracked_persons \in {get_all(updated)} :
       \E result \in {calculate_scores(behaviour_engine, tracked_persons, evidence,
                                       FrameShape, NoItems, now)} :
       \E decided \in {[t \in DOMAIN result.scores |-> AsScored(result.scores[t])]} :
       \E to_capture \in {ToCapture(decided, screenshot_captured)} :
          /\ frame_count' = fc
          /\ clock' = now
          /\ frame_weapons' = evidence
          /\ behaviour_scores' = result.scores
          /\ behaviour_engine' =
                [behaviour_engine EXCEPT !.position_history = result.position_history]
          /\ decisions' = decided
          /\ captures' = to_capture
          /\ screenshot_captured' = screenshot_captured \cup to_capture
          /\ screenshots' = Written(screenshots, to_capture)
          /\ alerts' = IF variant = "app"
                       THEN { [type |-> "THREAT DETECTED", person_id |-> t,
                               score |-> decided[t].score] : t \in to_capture }
                       ELSE {}
          /\ crowd_notice' = FALSE
          /\ memory' = IF fc % CleanupEveryMain = 0
                       THEN cleanup(updated, fc, StaleTimeout) ELSE updated
    /\ UNCHANGED <<variant, video, config, loop_pc, weapon_memory, tm_call, tm_result>>
    /\ UNCHANGED <<geoVars, nmsVars, lifeVars>>

\* The detector results an iteration of process_video can see: a detector
\* that is switched off, or not due in this frame, gives [].
WorkingPersonInputs(fc) == IF config.flags.personDetection THEN FramePersons(fc) ELSE { <<>> }
WorkingWeaponInputs(fc) == IF config.flags.weaponDetection THEN FrameWeapons(fc) ELSE { <<>> }
WorkingItemInputs(fc) ==
    IF config.flags.behaviorAnalysis /\ fc % ItemsEveryFrames = 0
    THEN FrameItems(fc) ELSE { <<>> }

\* working_app.py lines 181-350: one iteration in which a frame was read.
WorkingFrame ==
    /\ variant = "working"
    /\ loop_pc = "loop"
    /\ frame_count < LastFrame
    /\ \E person_detections \in WorkingPersonInputs(frame_count + 1) :
       \E new_weapons \in WorkingWeaponInputs(frame_count + 1) :
       \E suspicious_items \in WorkingItemInputs(frame_count + 1) :
       \E dt \in FrameSeconds :
       \E fc \in {frame_count + 1} : \E now \in {clock + dt} :
       \E remembered \in {NextWeaponMemory(weapon_memory, config.flags.weaponDetection,
                                           new_weapons, fc)} :
       \E evidence \in {MemoryEvidence(remembered)} :
       \E updated \in {IF config.flags.personDetection
                       THEN update(memory, person_detections, fc, now) ELSE memory} :
       \E tracked_persons \in {IF config.flags.personDetection
                               THEN get_all(updated) ELSE <<>>} :
       \E result \in {IF config.flags.personDetection /\ config.flags.behaviorAnalysis
                      THEN calculate_scores(behaviour_engine, tracked_persons,
                               IF config.flags.weaponDetection THEN evidence ELSE <<>>,
                               FrameShape, suspicious_items, now)
                      ELSE [scores |-> <<>>,
                            position_history |-> behaviour_engine.position_history]} :
       \E decided \in {[t \in DOMAIN result.scores |->
                           Escalate(result.scores[t], evidence)]} :
       \E to_capture \in {ToCapture(decided, screenshot_captured)} :
          /\ frame_count' = fc
          /\ clock' = now
          /\ weapon_memory' = remembered
          /\ frame_weapons' = evidence
          /\ behaviour_scores' = result.scores
          /\ behaviour_engine' =
                [behaviour_engine EXCEPT !.position_history = result.position_history]
          /\ decisions' = decided
          /\ alerts' = TrackAlerts(decided, fc)
          /\ captures' = to_capture
          /\ screenshot_captured' = screenshot_captured \cup to_capture
          /\ screenshots' = Written(screenshots, to_capture)
          /\ crowd_notice' = CrowdNotice(tracked_persons, fc)
          /\ memory' = IF fc % CleanupEveryWorking = 0
                       THEN cleanup(updated, fc, StaleTimeout) ELSE updated
    /\ UNCHANGED <<variant, video, config, loop_pc, tm_call, tm_result>>
    /\ UNCHANGED <<geoVars, nmsVars, lifeVars>>

\* video_source.read() returned None: the loop is left.
LoopVideoEnd ==
    /\ loop_pc = "loop"
    /\ loop_pc' = "ended"
    /\ UNCHANGED <<variant, video, config, frame_count, behaviour_engine, weapon_memory,
                   screenshot_captured, screenshots, frame_weapons,
                   behaviour_scores, decisions, alerts, captures, crowd_notice>>
    /\ UNCHANGED <<geoVars, nmsVars, tmVars, lifeVars>>

(***************************************************************************)
(* Start, stop and the processing threads: working_app.py handle_start,    *)
(* handle_stop, process_video; app.py start_surveillance / handle_start,   *)
(* stop_surveillance, handle_stop, process_video_stream; main.py main      *)
(***************************************************************************)

MaxLoops == 2          \* threads started, VideoSources created by app.py
MaxLifeFrames == 2     \* frames one thread processes

\* A thread that has just been started.  video_src is main's local video_src;
\* for the two servers it records the source opened for the thread's session.
NewThread(pc, src) == [pc |-> pc, frame_count |-> 0, video_src |-> src]

\* The pc of a thread that has passed the loop condition and is executing
\* the loop body.
LoopPcs == {"frame"}

\* detect_persons' results in these runs: nobody, or one person (track 1).
LifePersonInputs == { <<>>, DetectedPersons(<<PA>>) }

\* The read() results: a frame, None (end of the video), or an exception
\* raised while the frame is read or processed.
FrameOutcomes == {"frame", "end", "error"}

LifeIdle ==
    /\ running = FALSE
    /\ video_source = 0
    /\ sources = <<>>
    /\ threads = <<>>

\* The servers after import (state = {'running': False, 'video_source':
\* None, ...}); main.py when main() is entered.
LifeInit ==
    /\ variant \in {"working", "app", "main"}
    /\ running = FALSE
    /\ video_source = 0
    /\ sources = <<>>
    /\ threads = IF variant = "main" THEN <<NewThread("open", 0)>> ELSE <<>>
    /\ memory = EmptyMemory
    /\ clock = 0
    /\ tm_call = NoCall
    /\ tm_result = NoResult

\* VideoSource.release() (video_input.py lines 50-57) on source number src.
Release(srcs, src) == IF src = 0 THEN srcs ELSE [srcs EXCEPT ![src] = "released"]

\* The tracker calls of one iteration: update, then cleanup every `every`
\* frames (working_app.py lines 228-233 and 338-339, main.py lines 127 and
\* 171-172, app.py lines 232 and 288-289).
TrackFrame(mem, person_detections, fc, now, every) ==
    LET updated == update(mem, person_detections, fc, now)
    IN  IF fc % every = 0 THEN cleanup(updated, fc, StaleTimeout) ELSE updated

\* One iteration of thread i that read a frame: frame_count += 1 and the
\* tracker calls on the shared tracker memory.  (What the iteration scores
\* and emits is the subject of PlainFrame and WorkingFrame.)
ProcessFrame(i, every, next_pc) ==
    \E person_detections \in LifePersonInputs :
        /\ threads[i].frame_count < MaxLifeFrames
        /\ threads' = [threads EXCEPT ![i].frame_count = @ + 1, ![i].pc = next_pc]
        /\ clock' = clock + 1
        /\ memory' = TrackFrame(memory, person_detections, threads[i].frame_count + 1,
                                clock + 1, every)
        /\ UNCHANGED tm_result
        /\ tm_call' = [name |-> "update", frame |-> threads[i].frame_count + 1,
                       timeout |-> 0, dets |-> person_detections, before |-> memory]

\* working_app.py handle_start (lines 374-388).
WorkingStart ==
    /\ variant = "working"
    /\ Len(threads) < MaxLoops
    /\ IF ~running
       THEN /\ running' = TRUE
            /\ threads' = Append(threads, NewThread("open", 0))
       ELSE UNCHANGED <<running, threads>>
    /\ UNCHANGED <<video_source, sources>>
    /\ UNCHANGED <<geoVars, nmsVars, tmVars, loopVars>>

\* working_app.py handle_stop (lines 390-394).
WorkingStop ==
    /\ variant = "working"
    /\ running' = FALSE
    /\ UNCHANGED <<video_source, sources, threads>>
    /\ UNCHANGED <<geoVars, nmsVars, tmVars, loopVars>>

\* process_video line 142: state['video_source'] = VideoSource(video_path),
\* which raises ValueError when the source cannot be opened.
WorkingOpen ==
    /\ variant = "working"
    /\ \E i \in DOMAIN threads : \E opened \in BOOLEAN :
          /\ threads[i].pc = "open"
          /\ IF opened
             THEN /\ sources' = Append(sources, "open")
                  /\ video_source' = Len(sources) + 1
                  /\ threads' = [threads EXCEPT ![i].pc = "init",
                                                ![i].video_src = Len(sources) + 1]
             ELSE /\ threads' = [threads EXCEPT ![i].pc = "finally"]
                  /\ UNCHANGED <<sources, video_source>>
    /\ UNCHANGED running
    /\ UNCHANGED <<geoVars, nmsVars, tmVars, loopVars>>

\* process_video lines 144-179: the Detector, a new TrackerMemory, a new
\* BehaviourEngine and UIOverlay are stored in state; the Detector may raise.
WorkingInit ==
    /\ variant = "working"
    /\ \E i \in DOMAIN threads : \E loaded \in BOOLEAN :
          /\ threads[i].pc = "init"
          /\ IF loaded
             THEN /\ threads' = [threads EXCEPT ![i].pc = "check"]
                  /\ memory' = EmptyMemory
                  /\ UNCHANGED tm_result
                  /\ tm_call' = NoCall
             ELSE /\ threads' = [threads EXCEPT ![i].pc = "finally"]
                  /\ UNCHANGED <<memory, tm_call, tm_result>>
    /\ UNCHANGED <<running, video_source, sources, clock>>
    /\ UNCHANGED <<geoVars, nmsVars, loopVars>>

\* process_video line 181: while state['running'].
WorkingCheck ==
    /\ variant = "working"
    /\ \E i \in DOMAIN threads :
          /\ threads[i].pc = "check"
          /\ threads' = [threads EXCEPT ![i].pc = IF running THEN "frame" ELSE "finally"]
    /\ UNCHANGED <<running, video_source, sources>>
    /\ UNCHANGED <<geoVars, nmsVars, tmVars, loopVars>>

\* process_video lines 182-350: one pass through the loop body.  read() on a
\* released source returns None (video_input.py lines 39-40).
WorkingStep ==
    /\ variant = "working"
    /\ \E i \in DOMAIN threads : \E outcome \in FrameOutcomes :
          /\ threads[i].pc = "frame"
          /\ sources[video_source] = "released" => outcome = "end"
          /\ IF outcome = "frame"
             THEN ProcessFrame(i, CleanupEveryWorking, "check")
             ELSE /\ threads' = [threads EXCEPT ![i].pc = "finally"]
                  /\ UNCHANGED tmVars
    /\ UNCHANGED <<running, video_source, sources>>
    /\ UNCHANGED <<geoVars, nmsVars, loopVars>>

\* process_video lines 360-363: the finally block.
WorkingFinally ==
    /\ variant = "working"
    /\ \E i \in DOMAIN threads :
          /\ threads[i].pc = "finally"
          /\ threads' = [threads EXCEPT ![i].pc = "done"]
    /\ sources' = Release(sources, video_source)
    /\ running' = FALSE
    /\ UNCHANGED video_source
    /\ UNCHANGED <<geoVars, nmsVars, tmVars, loopVars>>

\* app.py start_surveillance (lines 100-121) and handle_start (lines
\* 324-341): init_surveillance (lines 151-198) runs first and stores a new
\* VideoSource, Detector, TrackerMemory, BehaviourEngine and UIOverlay; an
\* exception in it ends the handler.  Then the thread is started unless
\* running is set.
AppStart ==
    /\ variant = "app"
    /\ Len(sources) < MaxLoops
    /\ \E outcome \in {"ok", "no_source", "no_detector"} :
          CASE outcome = "no_source" ->
                  UNCHANGED <<lifeVars, tmVars>>
            [] outcome = "no_detector" ->
                  /\ sources' = Append(sources, "open")
                  /\ video_source' = Len(sources) + 1
                  /\ UNCHANGED <<running, threads, tmVars>>
            [] outcome = "ok" ->
                  /\ sources' = Append(sources, "open")
                  /\ video_source' = Len(sources) + 1
                  /\ memory' = EmptyMemory
                  /\ UNCHANGED tm_result
                  /\ tm_call' = NoCall
                  /\ UNCHANGED clock
                  /\ IF ~running
                     THEN /\ running' = TRUE
                          /\ threads' = Append(threads,
                                               NewThread("check", Len(sources) + 1))
                     ELSE UNCHANGED <<running, threads>>
    /\ UNCHANGED <<geoVars, nmsVars, loopVars>>

\* app.py stop_surveillance (lines 123-145).
AppStopHttp ==
    /\ variant = "app"
    /\ running' = FALSE
    /\ sources' = Release(sources, video_source)
    /\ video_source' = 0
    /\ UNCHANGED threads
    /\ UNCHANGED <<geoVars, nmsVars, tmVars, loopVars>>

\* app.py handle_stop (lines 343-347).
AppStopWs ==
    /\ variant = "app"
    /\ running' = FALSE
    /\ UNCHANGED <<video_source, sources, threads>>
    /\ UNCHANGED <<geoVars, nmsVars, tmVars, loopVars>>

\* process_video_stream line 212: while surveillance_state['running'].
AppCheck ==
    /\ variant = "app"
    /\ \E i \in DOMAIN threads :
          /\ threads[i].pc = "check"
          /\ threads' = [threads EXCEPT ![i].pc = IF running THEN "frame" ELSE "exit"]
    /\ UNCHANGED <<running, video_source, sources>>
    /\ UNCHANGED <<geoVars, nmsVars, tmVars, loopVars>>

\* process_video_stream lines 213-306: one pass through the loop body.  With
\* surveillance_state['video_source'] None the read raises, which the except
\* clause turns into a break; read() on a released source returns None.
AppStep ==
    /\ variant = "app"
    /\ \E i \in DOMAIN threads : \E outcome \in FrameOutcomes :
          /\ threads[i].pc = "frame"
          /\ video_source = 0 => outcome = "error"
          /\ video_source # 0 /\ sources[video_source] = "released" => outcome = "end"
          /\ IF outcome = "frame"
             THEN ProcessFrame(i, CleanupEveryMain, "check")
             ELSE /\ threads' = [threads EXCEPT ![i].pc = "exit"]
                  /\ UNCHANGED tmVars
    /\ UNCHANGED <<running, video_source, sources>>
    /\ UNCHANGED <<geoVars, nmsVars, loopVars>>

\* process_video_stream lines 308-312: after the loop.
AppExit ==
    /\ variant = "app"
    /\ \E i \in DOMAIN threads :
          /\ threads[i].pc = "exit"
          /\ threads' = [threads EXCEPT ![i].pc = "done"]
    /\ sources' = Release(sources, video_source)
    /\ UNCHANGED <<running, video_source>>
    /\ UNCHANGED <<geoVars, nmsVars, tmVars, loopVars>>

\* main.py lines 65-68 and 92-94: video_src = VideoSource(video_source); if
\* it raises, main returns.
MainOpen ==
    /\ variant = "main"
    /\ threads[1].pc = "open"
    /\ \E opened \in BOOLEAN :
          IF opened
          THEN /\ sources' = Append(sources, "open")
               /\ threads' = [threads EXCEPT ![1].pc = "init",
                                             ![1].video_src = Len(sources) + 1]
          ELSE /\ threads' = [threads EXCEPT ![1].pc = "done"]
               /\ UNCHANGED sources
    /\ UNCHANGED <<running, video_source>>
    /\ UNCHANGED <<geoVars, nmsVars, tmVars, loopVars>>

\* main.py lines 70-94: the Detector and the other components; if one of
\* them raises, main prints the error and returns.
MainInit ==
    /\ variant = "main"
    /\ threads[1].pc = "init"
    /\ \E loaded \in BOOLEAN :
          IF loaded
          THEN /\ threads' = [threads EXCEPT ![1].pc = "frame"]
               /\ memory' = EmptyMemory
               /\ UNCHANGED tm_result
               /\ tm_call' = NoCall
          ELSE /\ threads' = [threads EXCEPT ![1].pc = "done"]
               /\ UNCHANGED <<memory, tm_call, tm_result>>
    /\ UNCHANGED <<running, video_source, sources, clock>>
    /\ UNCHANGED <<geoVars, nmsVars, loopVars>>

\* main.py lines 106-188: one pass through `while True`; the loop is left
\* at the end of the video, on 'q' and on an exception.
MainStep ==
    /\ variant = "main"
    /\ threads[1].pc = "frame"
    /\ \E outcome \in FrameOutcomes :
          IF outcome = "frame"
          THEN ProcessFrame(1, CleanupEveryMain, "frame")
          ELSE /\ threads' = [threads EXCEPT ![1].pc = "finally"]
               /\ UNCHANGED tmVars
    /\ UNCHANGED <<running, video_source, sources>>
    /\ UNCHANGED <<geoVars, nmsVars, loopVars>>

\* main.py lines 190-203: the finally block.
MainFinally ==
    /\ variant = "main"
    /\ threads[1].pc = "finally"
    /\ threads' = [threads EXCEPT ![1].pc = "done"]
    /\ sources' = Release(sources, threads[1].video_src)
    /\ UNCHANGED <<running, video_source>>
    /\ UNCHANGED <<geoVars, nmsVars, tmVars, loopVars>>

(***************************************************************************)
(* Specifications                                                          *)
(***************************************************************************)

\* _check_weapon_near_person on every input of GeoInit.
GeoNext == CallCheckWeapon

InitGeo == GeoInit /\ NmsIdle /\ TMIdle /\ LoopIdle /\ LifeIdle

SpecGeo == InitGeo /\ [][GeoNext]_vars

\* _check_suspicious_item_near_person on its own.
ItemNext == CallCheckItem

InitItem == ItemInit /\ NmsIdle /\ TMIdle /\ LoopIdle /\ LifeIdle

SpecItem == InitItem /\ [][ItemNext]_vars

\* The three deduplication routines on every input of NmsInit.
NmsNext == CallPersonNms \/ CallNms \/ CallDeduplicateWeapons

InitNms == NmsInit /\ GeoIdle /\ TMIdle /\ LoopIdle /\ LifeIdle

SpecNms == InitNms /\ [][NmsNext]_vars

\* One TrackerMemory driven by any sequence of update and cleanup calls.
TMNext == TMTick \/ TMUpdate \/ TMCleanup

InitTM == TMInit /\ GeoIdle /\ NmsIdle /\ LoopIdle /\ LifeIdle

SpecTM == InitTM /\ [][TMNext]_vars

\* TrackerMemory with a caller that keeps the result of get_all().
ViewNext == TMGetAll \/ TMUpdate \/ TMCleanup

InitView == TMInit /\ GeoIdle /\ NmsIdle /\ LoopIdle /\ LifeIdle

SpecView == InitView /\ [][ViewNext]_vars

\* One processing loop of one of the three programs, fed any frames.
LoopNext == PlainFrame \/ WorkingFrame \/ LoopVideoEnd

InitLoop == LoopInit /\ GeoIdle /\ NmsIdle /\ LifeIdle

SpecLoop == InitLoop /\ [][LoopNext]_vars

\* The two servers under any start and stop requests, and main.py.
LifeNext ==
    \/ WorkingStart \/ WorkingStop \/ WorkingOpen \/ WorkingInit
    \/ WorkingCheck \/ WorkingStep \/ WorkingFinally
    \/ AppStart \/ AppStopHttp \/ AppStopWs \/ AppCheck \/ AppStep \/ AppExit
    \/ MainOpen \/ MainInit \/ MainStep \/ MainFinally

InitLife == LifeInit /\ GeoIdle /\ NmsIdle /\ LoopUnused

SpecLife == InitLife /\ [][LifeNext]_vars

\* One processing loop of one of the three programs on a video fixed in
\* advance.
InitRun == RunInit /\ GeoIdle /\ NmsIdle /\ LifeIdle

SpecRun == InitRun /\ [][LoopNext]_vars

(***************************************************************************)
(* C1.  A weapon is associated with the track iff, for some weapon of the  *)
(* list, its centre lies in the track box grown by 20% of the width and    *)
(* height on each side (boundary included) or its raw box overlaps the     *)
(* track's raw box; the class returned is that of the first such weapon.   *)
(***************************************************************************)

\* The claim's two tests, stated on the geometry (in fifths of a pixel
\* doubled, i.e. every length times 10) and not on the code's expressions.
C1_InGrown(pb, wb) ==
    LET mx == 2 * (pb[3] - pb[1])
        my == 2 * (pb[4] - pb[2])
        cx == 5 * (wb[1] + wb[3])
        cy == 5 * (wb[2] + wb[4])
    IN  /\ cx \in (10 * pb[1] - mx)..(10 * pb[3] + mx)
        /\ cy \in (10 * pb[2] - my)..(10 * pb[4] + my)

C1_Intersects(pb, wb) ==
    /\ wb[1] < pb[3] /\ pb[1] < wb[3]
    /\ wb[2] < pb[4] /\ pb[2] < wb[4]

C1_Associated(pb, w) == C1_InGrown(pb, w.bbox) \/ C1_Intersects(pb, w.bbox)

C1_WeaponProximity ==
    ret_weapon_near \notin {"pending", "idle"} =>
        LET hits == { i \in 1..Len(arg_weapons) : C1_Associated(arg_person_bbox, arg_weapons[i]) }
        IN  /\ (ret_weapon_near # None) <=> (hits # {})
            /\ hits # {} =>
                 ret_weapon_near = arg_weapons[CHOOSE i \in hits : \A j \in hits : i <= j].class

\* A weapon whose centre lies exactly on the grown boundary, whose box does
\* not overlap the track box, was associated; and a list with a weapon
\* entirely outside both boxes was not.
C1_OnBoundary(pb, wb) ==
    /\ 5 * (wb[1] + wb[3]) = 10 * pb[3] + 2 * (pb[3] - pb[1])
    /\ ~C1_Intersects(pb, wb)
    /\ C1_InGrown(pb, wb)

C1_Witness ==
    /\ Len(arg_weapons) = 1
    /\ C1_OnBoundary(arg_person_bbox, arg_weapons[1].bbox)
    /\ ret_weapon_near = "gun"

(***************************************************************************)
(* C7.  Each deduplication routine returns a list no longer than its input *)
(* in which no two kept detections have an IoU above the threshold under   *)
(* the routine's class policy (_apply_person_nms: any two; _apply_nms: any *)
(* two of the same class); every kept detection is one of the input.       *)
(***************************************************************************)

\* IoU of two boxes > percent/100, from the side lengths of the overlap.
C7_Side(lo1, hi1, lo2, hi2) == Max(0, Min(hi1, hi2) - Max(lo1, lo2))

C7_IouAbove(a, b, percent) ==
    LET inter == C7_Side(a[1], a[3], b[1], b[3]) * C7_Side(a[2], a[4], b[2], b[4])
        areaA == (a[3] - a[1]) * (a[4] - a[2])
        areaB == (b[3] - b[1]) * (b[4] - b[2])
    IN  100 * inter > percent * (areaA + areaB - inter)

C7_Count(d, list) == Cardinality({ i \in 1..Len(list) : list[i] = d })

C7_NoOverlapKept ==
    nms_call \in {"_apply_person_nms", "_apply_nms"} =>
        /\ Len(nms_out) <= Len(nms_input)
        /\ \A i \in 1..Len(nms_out) : C7_Count(nms_out[i], nms_out) <= C7_Count(nms_out[i], nms_input)
        /\ \A i, j \in 1..Len(nms_out) :
              (i < j /\ C7_IouAbove(nms_out[i].bbox, nms_out[j].bbox, nms_threshold))
                 => /\ nms_call = "_apply_nms"
                    /\ nms_out[i].class # nms_out[j].class

\* A list of three in which one detection was suppressed by a kept one and
\* two overlapping detections of different classes were both kept.
C7_Witness ==
    /\ nms_call = "_apply_nms"
    /\ Len(nms_input) = 3
    /\ Len(nms_out) = 2
    /\ C7_IouAbove(nms_out[1].bbox, nms_out[2].bbox, nms_threshold)

(***************************************************************************)
(* C5.  cleanup(frame, timeout) removes exactly the tracks with            *)
(* frame - last_seen_frame > timeout and leaves every other track in place *)
(* with all its fields unchanged; a track with frame - last_seen_frame =   *)
(* timeout stays (timeout 90, last seen at frame 10: removed at frame 101, *)
(* retained at frame 100).                                                 *)
(***************************************************************************)
C5_CleanupExact ==
    tm_call.name = "cleanup" =>
        LET before == tm_call.before
            stale(k) == tm_call.frame - before[k].last_seen_frame > tm_call.timeout
        IN  /\ DOMAIN memory = { k \in DOMAIN before : ~stale(k) }
            /\ \A k \in DOMAIN memory : memory[k] = before[k]
            /\ \A k \in DOMAIN before :
                  (tm_call.timeout = 90 /\ before[k].last_seen_frame = 10) =>
                      /\ tm_call.frame = 101 => k \notin DOMAIN memory
                      /\ tm_call.frame = 100 => k \in DOMAIN memory

\* cleanup(101, 90) removed a track last seen at frame 10 and kept another.
C5_Witness ==
    /\ tm_call.name = "cleanup" /\ tm_call.frame = 101 /\ tm_call.timeout = 90
    /\ \E k \in DOMAIN tm_call.before :
          tm_call.before[k].last_seen_frame = 10 /\ k \notin DOMAIN memory
    /\ DOMAIN memory # {}

(***************************************************************************)
(* C6.  update never removes a track; a track whose id is not in the       *)
(* detection list is unchanged; a track that existed keeps its             *)
(* first_seen_time; every id of the list is in the store afterwards with   *)
(* last_seen_frame equal to the frame number of the call.                  *)
(***************************************************************************)
C6_Ids(dets) == { dets[i].track_id : i \in 1..Len(dets) }

C6_UpdateFrame ==
    tm_call.name = "update" =>
        LET before == tm_call.before
            ids == C6_Ids(tm_call.dets)
        IN  /\ DOMAIN memory = DOMAIN before \cup ids
            /\ \A k \in DOMAIN before :
                  /\ memory[k].first_seen_time = before[k].first_seen_time
                  /\ k \notin ids => memory[k] = before[k]
            /\ \A k \in ids : memory[k].last_seen_frame = tm_call.frame

\* A second update of a track, with the bbox it already had, at a later time
\* and another frame number, while another track was left alone.
C6_Witness ==
    /\ tm_call.name = "update"
    /\ \E k \in C6_Ids(tm_call.dets) \cap DOMAIN tm_call.before :
          /\ memory[k].bbox = tm_call.before[k].bbox
          /\ memory[k].last_seen_frame # tm_call.before[k].last_seen_frame
          /\ memory[k].first_seen_time < clock
    /\ \E k \in DOMAIN tm_call.before : k \notin C6_Ids(tm_call.dets)

(***************************************************************************)
(* C4.  Alert levels of the score records                                  *)
(***************************************************************************)

\* The largest score eight factors can add up to: 1+2+1+1+1+5+2+1.
C4_Scores == 0..14

\* C4: in every score record returned by calculate_scores, alert_level is
\* THREAT iff score >= 5, SUSPICIOUS iff 3 <= score <= 4 and NORMAL iff
\* score <= 2; the level never falls when the score rises, and every score
\* has one of the three levels.
C4_LevelMatchesScore ==
    /\ \A t \in DOMAIN behaviour_scores :
          LET r == behaviour_scores[t]
          IN  /\ r.score \in C4_Scores
              /\ (r.alert_level = "THREAT") <=> (r.score >= 5)
              /\ (r.alert_level = "SUSPICIOUS") <=> (3 <= r.score /\ r.score <= 4)
              /\ (r.alert_level = "NORMAL") <=> (r.score <= 2)
    /\ \A a, b \in C4_Scores :
          LET Rank(level) == CASE level = "NORMAL" -> 0
                               [] level = "SUSPICIOUS" -> 1
                               [] level = "THREAT" -> 2
          IN  a <= b => Rank(AlertLevel(a)) <= Rank(AlertLevel(b))

\* A scoring pass returned a record with score exactly 5, at level THREAT,
\* next to a record of a lower level.
C4_Witness ==
    \E t, u \in DOMAIN behaviour_scores :
        /\ behaviour_scores[t].score = 5
        /\ behaviour_scores[t].alert_level = "THREAT"
        /\ behaviour_scores[u].score < 5
        /\ behaviour_scores[u].alert_level # "THREAT"

(***************************************************************************)
(* C2.  working_app: weapon evidence escalates every scored track          *)
(***************************************************************************)

\* C2: in every iteration of process_video's loop whose deduplicated weapon
\* evidence is non-empty, every track with a score record is decided as
\* THREAT with a score of at least 5 (and so has a capture, now or earlier),
\* whether or not a weapon is near it; with empty evidence the decision is
\* the engine's alert_level and score.
C2_EvidenceEscalates ==
    variant = "working" =>
        /\ DOMAIN decisions = DOMAIN behaviour_scores
        /\ \A t \in DOMAIN behaviour_scores :
              IF Len(frame_weapons) > 0
              THEN /\ decisions[t].alert_level = "THREAT"
                   /\ decisions[t].score >= 5
                   /\ t \in screenshot_captured
              ELSE /\ decisions[t].alert_level = behaviour_scores[t].alert_level
                   /\ decisions[t].score = behaviour_scores[t].score

\* With evidence present, a track the engine scored NORMAL, with no weapon
\* factor, was decided THREAT with score 5 and captured in this iteration.
C2_Witness ==
    /\ variant = "working"
    /\ Len(frame_weapons) > 0
    /\ \E t \in DOMAIN behaviour_scores :
          /\ behaviour_scores[t].alert_level = "NORMAL"
          /\ \A i \in 1..Len(behaviour_scores[t].factors) :
                behaviour_scores[t].factors[i][1] # "Weapon"
          /\ decisions[t] = [alert_level |-> "THREAT", score |-> 5]
          /\ t \in captures

(***************************************************************************)
(* C3.  Dwell plus weapon: score 6, THREAT, one capture per track id       *)
(***************************************************************************)

C3_DwellOnly == << <<"Loitering">> >>

C3_DwellAndWeapon(factors) ==
    /\ Len(factors) = 2
    /\ factors[1] = <<"Loitering">>
    /\ factors[2][1] = "Weapon"

\* A track scored with dwell as its only factor is scored in the next
\* iteration with dwell and a weapon: its score is 6, its level THREAT, and
\* exactly one screenshot exists for it.
C3_Step ==
    \A t \in DOMAIN behaviour_scores :
        ( /\ behaviour_scores[t].factors = C3_DwellOnly
          /\ t \in DOMAIN behaviour_scores'
          /\ C3_DwellAndWeapon(behaviour_scores'[t].factors) )
        => /\ behaviour_scores'[t].score = 6
           /\ behaviour_scores'[t].alert_level = "THREAT"
           /\ decisions'[t].alert_level = "THREAT"
           /\ t \in DOMAIN screenshots'
           /\ screenshots'[t] = 1
           /\ (t \notin screenshot_captured => t \in captures')

\* In every state no track id has more than one screenshot, and a screenshot
\* is written only for a track decided THREAT.
C3_AtMostOne ==
    /\ \A t \in DOMAIN screenshots : screenshots[t] <= 1
    /\ \A t \in captures : t \in DOMAIN decisions /\ decisions[t].alert_level = "THREAT"
    /\ DOMAIN screenshots = screenshot_captured

C8_TrackStoreSound ==
    /\ \A id \in DOMAIN memory : memory[id].track_id = id
    /\ tm_call.name = "update" =>
          \A id \in DOMAIN tm_call.before \cap DOMAIN memory :
              memory[id].last_seen_frame >= tm_call.before[id].last_seen_frame

(***************************************************************************)
(* C9.  At most one processing loop                                        *)
(***************************************************************************)

\* C9: under every interleaving of start requests, stop requests and the
\* steps of the processing loop, at most one thread is executing the loop
\* body.
C9_AtMostOneLoop ==
    Cardinality({ i \in DOMAIN threads : threads[i].pc \in LoopPcs }) <= 1

(***************************************************************************)
(* C10.  The video source is released on every exit path                   *)
(***************************************************************************)

\* C10: when a processing thread (or main) has ended, by a stop, the end of
\* the video, an exception in the loop or a failure while the components
\* are created, the video source opened for it has been released.
C10_ReleasedOnExit ==
    \A i \in DOMAIN threads :
        (threads[i].pc = "done" /\ threads[i].video_src # 0)
            => sources[threads[i].video_src] = "released"

(***************************************************************************)
(* C11.  A start request under a running loop                              *)
(***************************************************************************)

\* Some processing thread is in its while loop.
C11_LoopRunning == \E i \in DOMAIN threads : threads[i].pc \in {"check", "frame"}

\* C11: a start request handled while a processing loop is running does not
\* replace the video source or the track store the loop is using: both are
\* the same objects with the same contents after the request.
C11_StartKeepsState ==
    [][ (C11_LoopRunning /\ (WorkingStart \/ AppStart))
            => (video_source' = video_source /\ sources' = sources /\ memory' = memory) ]_vars

(***************************************************************************)
(* C12.  working_app: per-track alerts are limited to every 30th frame     *)
(***************************************************************************)

\* C12: in process_video's loop a per-track alert is emitted only in frames
\* whose number is a multiple of 30, only with level SUSPICIOUS or THREAT
\* (the level decided for the track, escalation included), and at most once
\* per track in a frame.
C12_AlertsRateLimited ==
    variant = "working" =>
        /\ alerts # {} => frame_count % 30 = 0
        /\ \A a \in alerts :
              /\ a.type \in {"SUSPICIOUS", "THREAT"}
              /\ a.person_id \in DOMAIN decisions
              /\ a.type = decisions[a.person_id].alert_level
        /\ \A a, b \in alerts : a.person_id = b.person_id => a = b

\* Frame 60 of process_video's loop emitted a SUSPICIOUS alert for each of
\* two tracks.
C12_Witness ==
    /\ variant = "working"
    /\ frame_count = 60
    /\ Cardinality(alerts) = 2
    /\ \A a \in alerts : a.type = "SUSPICIOUS"

(***************************************************************************)
(* C13.  working_app: the crowd notice                                     *)
(***************************************************************************)

\* C13: in process_video's loop the crowd notice is emitted in a frame iff
\* at least 2 tracks are in the store and the frame number is a positive
\* multiple of 60; with fewer than 2 tracks none is emitted.  (Every track
\* of the store has a score record in these runs.)
C13_CrowdNotice ==
    (variant = "working" /\ frame_count > 0) =>
        /\ crowd_notice <=> ( /\ Cardinality(DOMAIN behaviour_scores) >= 2
                              /\ frame_count % 60 = 0 )
        /\ Cardinality(DOMAIN behaviour_scores) < 2 => ~crowd_notice

\* The second crowd notice, at frame 120, with two tracks in the store.
C13_Witness ==
    /\ variant = "working"
    /\ frame_count = 120
    /\ Cardinality(DOMAIN behaviour_scores) = 2
    /\ crowd_notice

(***************************************************************************)
(* C14.  The crowd factor and the configured threshold                     *)
(***************************************************************************)

C14_HasCrowdFactor(record) ==
    \E i \in 1..Len(record.factors) : record.factors[i] = <<"Multiple people">>

\* C14: in a scoring pass a track's record has the crowd factor iff the
\* number of tracks scored is at least the crowd threshold configured on
\* the engine.
C14_CrowdFactorByThreshold ==
    \A t \in DOMAIN behaviour_scores :
        C14_HasCrowdFactor(behaviour_scores[t])
            <=> Cardinality(DOMAIN behaviour_scores) >= behaviour_engine.crowd_threshold

(***************************************************************************)
(* C15.  One track present for 35 seconds                                  *)
(***************************************************************************)

\* The store holds exactly one track, seen in this frame and first seen 35
\* seconds ago; no restricted zone, no weapon evidence, no items.
C15_Scenario ==
    /\ loop_pc = "loop"
    /\ DOMAIN behaviour_scores = {1}
    /\ DOMAIN memory = {1}
    /\ memory[1].last_seen_frame = frame_count
    /\ behaviour_scores[1].stay_duration = 35
    /\ behaviour_engine.restricted_zone = NoZone
    /\ frame_weapons = <<>>

\* The record the scenario is said to give.
C15_Expected ==
    /\ behaviour_scores[1].score = 1
    /\ behaviour_scores[1].alert_level = "NORMAL"
    /\ behaviour_scores[1].factors = << <<"Loitering">> >>

\* The track is at least 20 pixels away from each of its positions of 5 to
\* 10 seconds ago and at most 100 pixels away from each of its positions of
\* 2 to 10 seconds ago (doubled centres: 4 * distance^2).
C15_Moving ==
    LET history == behaviour_engine.position_history[1]
        current == memory[1].last_position
    IN  \A i \in 1..Len(history) :
            /\ clock - history[i][1] >= 5 =>
                    Distance2Sq(history[i][2], current) >= 4 * 20 * 20
            /\ clock - history[i][1] >= 2 =>
                    Distance2Sq(history[i][2], current) <= 4 * 100 * 100

\* The track's box is at least 50 pixels away from every edge of the frame.
C15_AwayFromEdge ==
    LET b == memory[1].bbox
    IN  b[1] >= 50 /\ b[2] >= 50 /\ b[3] <= FrameShape[2] - 50 /\ b[4] <= FrameShape[1] - 50

\* C15 as stated: one track present for 35 seconds, no zone, no weapon or
\* item evidence: score 1, level NORMAL, the dwell factor alone.
C15_DwellOnly == C15_Scenario => C15_Expected

\* C15 for a track that keeps moving (at least 20 pixels from where it was 5
\* to 10 seconds ago, at most 100 pixels from where it was 2 to 10 seconds
\* ago) away from the frame edge: score 1, level NORMAL, the dwell factor
\* alone.
C15_DwellOnlyWhenMoving ==
    (C15_Scenario /\ C15_Moving /\ C15_AwayFromEdge) => C15_Expected

\* The walking person at 35 seconds: score 1, NORMAL, dwell alone.
C15_Witness ==
    /\ C15_Scenario
    /\ C15_Moving
    /\ C15_AwayFromEdge
    /\ Len(behaviour_engine.position_history[1]) >= 6
    /\ C15_Expected

(***************************************************************************)
(* C16.  A new capture after eviction and re-creation                      *)
(***************************************************************************)

\* C16: a track whose evidence was captured and which cleanup has removed
\* from the store is captured again in the frame that re-creates it at
\* THREAT.
C16_RecaptureAfterEviction ==
    [][ \A t \in screenshot_captured :
            ( /\ t \notin DOMAIN memory
              /\ t \in DOMAIN decisions'
              /\ decisions'[t].alert_level = "THREAT" )
            => t \in captures' ]_vars

(***************************************************************************)
(* C17.  Eviction as soon as the staleness timeout is exceeded             *)
(***************************************************************************)

\* The last frame in which track t was seen, as the store held it when the
\* pass of this frame scored it (the track is still stored, or the cleanup
\* of this very frame has just removed it).
C17_ScoredStale(t) ==
    IF t \in DOMAIN memory
    THEN frame_count - memory[t].last_seen_frame > StaleTimeout
    ELSE FALSE

\* C17: in no frame is a track scored while current_frame - last_seen_frame
\* is greater than 90.
C17_NoStaleTrackScored ==
    \A t \in DOMAIN behaviour_scores : ~C17_ScoredStale(t)

(***************************************************************************)
(* C18.  The position history after a scoring pass                         *)
(***************************************************************************)

C18_HasFactor(record, name) ==
    \E i \in 1..Len(record.factors) : record.factors[i] = name

\* The history of track t is ordered by time, ends with the sample of this
\* pass and holds no sample more than 10 seconds old.
C18_HistoryInWindow(t) ==
    LET history == behaviour_engine.position_history[t]
    IN  /\ Len(history) >= 1
        /\ \A i \in 1..(Len(history) - 1) : history[i][1] <= history[i + 1][1]
        /\ history[Len(history)][1] = clock
        /\ t \in DOMAIN memory => history[Len(history)][2] = memory[t].last_position
        /\ \A i \in 1..Len(history) : clock - history[i][1] <= 10

\* The stillness and erratic factors of track t rest on a sample of the
\* pruned history: one 5 or more seconds old less than 20 pixels away, one 2
\* or more seconds old more than 100 pixels away.
C18_LookupsInWindow(t) ==
    LET history == behaviour_engine.position_history[t]
        current == history[Len(history)][2]
    IN  /\ C18_HasFactor(behaviour_scores[t], <<"Suspicious stillness">>) =>
              \E i \in 1..Len(history) :
                  /\ clock - history[i][1] >= 5
                  /\ Distance2Sq(history[i][2], current) < 4 * 20 * 20
        /\ C18_HasFactor(behaviour_scores[t], <<"Erratic movement">>) =>
              \E i \in 1..Len(history) :
                  /\ clock - history[i][1] >= 2
                  /\ Distance2Sq(history[i][2], current) > 4 * 100 * 100

\* C18: after every scoring pass the history of each scored track is ordered
\* by time, ends with the sample appended in the pass, holds no sample more
\* than 10 seconds older than the pass, and the stillness and erratic
\* factors were decided on that pruned history.
C18_HistoryPruned ==
    \A t \in DOMAIN behaviour_scores :
        /\ t \in DOMAIN behaviour_engine.position_history
        /\ C18_HistoryInWindow(t)
        /\ C18_LookupsInWindow(t)

\* The running person 12 or more seconds into the video: eleven samples are
\* kept, older ones were pruned, the erratic factor is set.
C18_Witness ==
    /\ clock >= 12
    /\ 1 \in DOMAIN behaviour_scores
    /\ 1 \in DOMAIN memory
    /\ memory[1].last_seen_frame = frame_count
    /\ Len(behaviour_engine.position_history[1]) = 11
    /\ behaviour_engine.position_history[1][1][1] = clock - 10
    /\ C18_HasFactor(behaviour_scores[1], <<"Erratic movement">>)
    /\ C18_HistoryInWindow(1)

(***************************************************************************)
(* C20.  Position history of evicted tracks                                *)
(***************************************************************************)

\* C20: every track id with stored position history is a track of the store
\* or was scored within the last 10 seconds.
C20_HistoryBounded ==
    \A t \in DOMAIN behaviour_engine.position_history :
        LET history == behaviour_engine.position_history[t]
        IN  \/ t \in DOMAIN memory
            \/ /\ Len(history) >= 1
               /\ clock - history[Len(history)][1] <= 10

(***************************************************************************)
(* C19.  The result of get_all() while the store is updated                *)
(***************************************************************************)

\* C19: the mapping a caller obtained from get_all() has the entries it had
\* when it was returned, whatever update and cleanup calls came later.
C19_ResultIsSnapshot ==
    tm_result.held => ResultEntries = tm_result.returned

(***************************************************************************)
(* C21.  The score is the sum of the points of the listed factors          *)
(***************************************************************************)

\* The points of a factor, by its kind.
C21_Points(factor) ==
    CASE factor[1] = "Loitering" -> 1
      [] factor[1] = "In restricted zone" -> 2
      [] factor[1] = "Suspicious stillness" -> 1
      [] factor[1] = "Erratic movement" -> 1
      [] factor[1] = "Multiple people" -> 1
      [] factor[1] = "Weapon" -> 5
      [] factor[1] = "Suspicious item" -> 2
      [] factor[1] = "At frame edge" -> 1
      [] OTHER -> 0 - 100

RECURSIVE C21_Sum(_, _)
C21_Sum(factors, i) ==
    IF i > Len(factors) THEN 0 ELSE C21_Points(factors[i]) + C21_Sum(factors, i + 1)

C22_MostRecentAged(history, seconds) ==
    LET aged == { i \in 1..Len(history) : clock - history[i][1] >= seconds }
    IN  IF aged = {} THEN 0 ELSE CHOOSE i \in aged : \A j \in aged : j <= i

\* The squared doubled distance from that sample to the current position, or
\* -1 when the history has fewer than 2 samples or no such sample.
C22_Moved(history, seconds) ==
    LET i == C22_MostRecentAged(history, seconds)
    IN  IF Len(history) < 2 \/ i = 0 THEN 0 - 1
        ELSE Distance2Sq(history[i][2], history[Len(history)][2])

\* C22: the stillness factor is set iff the track is less than 20 pixels from
\* its most recent sample 5 or more seconds old, the erratic factor iff it is
\* more than 100 pixels from its most recent sample 2 or more seconds old.
C22_MostRecentReference ==
    \A t \in DOMAIN behaviour_scores :
        LET history == behaviour_engine.position_history[t]
            still == C22_Moved(history, 5)
            moved == C22_Moved(history, 2)
        IN  /\ C18_HasFactor(behaviour_scores[t], <<"Suspicious stillness">>)
                  <=> (still >= 0 /\ still < 4 * 20 * 20)
            /\ C18_HasFactor(behaviour_scores[t], <<"Erratic movement">>)
                  <=> (moved >= 0 /\ moved > 4 * 100 * 100)

(***************************************************************************)
(* C23.  The suspicious-item factor's spatial test                         *)
(***************************************************************************)

\* The item's centre lies inside the track box grown by 30% of its width and
\* height on each side, boundary included (every length times 10).
C23_InGrown(pb, ib) ==
    LET mx == 3 * (pb[3] - pb[1])
        my == 3 * (pb[4] - pb[2])
        cx == 5 * (ib[1] + ib[3])
        cy == 5 * (ib[2] + ib[4])
    IN  /\ cx \in (10 * pb[1] - mx)..(10 * pb[3] + mx)
        /\ cy \in (10 * pb[2] - my)..(10 * pb[4] + my)

\* C23: the item check returns the class of the first item of the list whose
\* centre lies in the grown track box or whose box intersects the track box,
\* and None iff there is no such item.
C23_ItemProximity ==
    ret_item_near \notin {"pending", "idle"} =>
        LET hits == { i \in 1..Len(arg_items) :
                         \/ C23_InGrown(arg_person_bbox, arg_items[i].bbox)
                         \/ C1_Intersects(arg_person_bbox, arg_items[i].bbox) }
        IN  /\ (ret_item_near # None) <=> (hits # {})
            /\ hits # {} =>
                 ret_item_near = arg_items[CHOOSE i \in hits : \A j \in hits : i <= j].class

(***************************************************************************)
(* C24.  The weapon memory of working_app                                  *)
(***************************************************************************)

\* The frames up to now in which the detector reported a weapon.
C24_Reports == { f \in 1..frame_count : VideoWeapons(video, f) # <<>> }

\* C24: in working_app the weapon evidence is non-empty exactly in the
\* frames less than 30 after a frame with a detector report (f..f+29), the
\* memory holds the detections of the last reporting frame only, and every
\* remembered entry is younger than 30 frames.
C24_WeaponMemoryWindow ==
    (variant = "working" /\ frame_count > 0) =>
        /\ frame_weapons # <<>> <=> \E f \in C24_Reports : frame_count - f < 30
        /\ \A i \in 1..Len(weapon_memory) :
               /\ frame_count - weapon_memory[i][1] < 30
               /\ weapon_memory[i][1] \in C24_Reports
               /\ \A f \in C24_Reports : f <= weapon_memory[i][1]

\* The gun reported in frames 28..30 is still evidence in frame 59.
C24_Witness ==
    /\ variant = "working"
    /\ video.gun = <<28, 30>>
    /\ frame_count = 59
    /\ frame_weapons # <<>>
    /\ Len(weapon_memory) = 1
    /\ weapon_memory[1][1] = 30

(***************************************************************************)
(* C25.  The three deduplication routines as one parameterized procedure   *)
(***************************************************************************)

\* dedupe(detections, class_match_required, iou_threshold): sort by
\* descending confidence, keep a detection unless its IoU with an already
\* kept one is above the threshold (and, if required, the classes match).
C25_Conflicts(d, keep, class_match_required, percent) ==
    \E k \in 1..Len(keep) :
        /\ IouGreater(calculate_iou(d.bbox, keep[k].bbox), percent)
        /\ class_match_required => d.class = keep[k].class

RECURSIVE C25_Greedy(_, _, _, _, _)
C25_Greedy(sorted, i, keep, class_match_required, percent) ==
    IF i > Len(sorted) THEN keep
    ELSE C25_Greedy(sorted, i + 1,
                    IF C25_Conflicts(sorted[i], keep, class_match_required, percent)
                       THEN keep ELSE Append(keep, sorted[i]),
                    class_match_required, percent)

C25_dedupe(detections, class_match_required, percent) ==
    C25_Greedy(SortByConfidence(detections), 1, <<>>, class_match_required, percent)

\* C25: _apply_person_nms is dedupe(., false, threshold), _apply_nms is
\* dedupe(., true, threshold), and the result of _deduplicate_weapons is
\* that of dedupe(., true, t) for a threshold t.
C25_OneProcedure ==
    /\ nms_call = "_apply_person_nms" =>
           nms_out = C25_dedupe(nms_input, FALSE, nms_threshold)
    /\ nms_call = "_apply_nms" =>
           nms_out = C25_dedupe(nms_input, TRUE, nms_threshold)
    /\ nms_call = "_deduplicate_weapons" =>
           \E t \in 0..100 : nms_out = C25_dedupe(nms_input, TRUE, t)

(***************************************************************************)
(* C26.  A detected weapon is followed by THREAT alerts                    *)
(***************************************************************************)

\* C26: in working_app, in a frame that is a multiple of 30 and less than 30
\* frames after a frame with a detector report, a THREAT alert is emitted for
\* every track with a score record.
C26_ThreatAlertAfterWeapon ==
    ( /\ variant = "working"
      /\ frame_count > 0
      /\ frame_count % 30 = 0
      /\ \E f \in C24_Reports : frame_count - f < 30 )
    => \A t \in DOMAIN behaviour_scores :
           \E a \in alerts : a.type = "THREAT" /\ a.person_id = t

\* Frame 60, the gun was seen in frames 40 and 41: THREAT alerts for the
\* person at the gun and for the person away from it.
C26_Witness ==
    /\ variant = "working"
    /\ video.gun = <<40, 41>>
    /\ frame_count = 60
    /\ DOMAIN behaviour_scores = {1, 2}
    /\ \A t \in {1, 2} : \E a \in alerts : a.type = "THREAT" /\ a.person_id = t
    /\ behaviour_scores[2].alert_level # "THREAT"

(***************************************************************************)
(* C27.  How stale a track of the store can be                             *)
(***************************************************************************)

\* timeout + cleanup period of the loop.
C27_Bound ==
    IF variant = "working" THEN StaleTimeout + CleanupEveryWorking
    ELSE StaleTimeout + CleanupEveryMain

\* C27: in every iteration each track scored was last seen at most 90 + 30
\* frames ago (main.py, app.py) or 90 + 60 frames ago (working_app.py), and
\* each track left in the store after the iteration less than that.
C27_StalenessBounded ==
    [][ frame_count' = frame_count + 1 =>
          /\ \A t \in DOMAIN behaviour_scores' :
                 LET last == IF t \in DOMAIN memory' THEN memory'[t].last_seen_frame
                             ELSE memory[t].last_seen_frame
                 IN  frame_count' - last <= C27_Bound
          /\ \A t \in DOMAIN memory' :
                 frame_count' - memory'[t].last_seen_frame < C27_Bound ]_vars

\* working_app at frame 180: the track last seen in frame 30 is scored, 150
\* frames stale, and evicted.
C27_Witness ==
    /\ variant = "working"
    /\ frame_count = 180
    /\ video.people = <<Appearance(1, 30, PA, 0)>>
    /\ 1 \in DOMAIN behaviour_scores
    /\ 1 \notin DOMAIN memory

(***************************************************************************)
(* C28.  The running flag and the life of the processing loop              *)
(***************************************************************************)

\* C28: in the two servers the running flag is set only while a processing
\* thread has not finished.
C28_RunningOnlyWhileAlive ==
    (variant \in {"app", "working"} /\ running) =>
        \E i \in DOMAIN threads : threads[i].pc # "done"

(***************************************************************************)
(* C29.  Stillness and erratic movement exclude each other                 *)
(***************************************************************************)

C30_HistoryOfThisTrack ==
    \A t \in DOMAIN memory \cap DOMAIN behaviour_engine.position_history :
        LET history == behaviour_engine.position_history[t]
        IN  \A i \in 1..Len(history) : history[i][1] >= memory[t].first_seen_time

=============================================================================
